---------------------------- MODULE Spec2Model ----------------------------
(* Temporal Mechanics Core of TEMPORAL DEBT: the Debt Manager, the Time    *)
(* Engine, the Anchor System, the Momentum System and the Time Reversal    *)
(* System, modelled from the Python sources.                               *)
(*                                                                         *)
(* Seconds (debt, real time) are fixed-point integers: 1 s = 12000 units.  *)
(* Multipliers (interest, world speed, accrual rate) are in hundredths.    *)
(* The input sets keep every product an exact integer, so the arithmetic   *)
(* of the model is the real-number arithmetic of the code.                 *)
EXTENDS Integers, Sequences, FiniteSets, TLC

VARIABLES
    dm,     \* the DebtManager object's fields
    te,     \* the TimeEngine object's fields
    an,     \* the AnchorSystem object's fields
    mo,     \* the MomentumSystem object's fields
    tr,     \* the TimeReversalSystem object's fields
    rs,     \* the ResonanceSystem object's fields
    ec,     \* the EchoSystem object's fields
    bus,    \* events emitted on the event manager by the last handler
    ret,    \* value returned by the last handler (0 when it returns None)
    obj,    \* object returned by the last handler (position, anchor, snapshot)
    last,   \* the last handler called and its argument
    pre,    \* the objects as they were when the last handler was called
    hist,   \* history of the anchor slots (what was placed where and when),
            \* of the current resonance wave and of the recorded frames
    calls,  \* number of handler calls made so far
    scn     \* position in the freeze/repay scenario (SpecScenario only)

vars ==
    <<dm, te, an, mo, tr, rs, ec, bus, ret, obj, last, pre, hist, calls,
      scn>>

-----------------------------------------------------------------------------
(* Units and settings *)

\* n seconds in model units (1 s = 12000 units)
Sec(n) == n * 12000

Max(a, b) == IF a >= b THEN a ELSE b
Min(a, b) == IF a <= b THEN a ELSE b

DEBT_ACCRUAL_RATE == 150

\* Settings.DEBT_TIERS, tiers 0..5 (tuple index = tier + 1)
TierInterest == <<100, 100, 125, 150, 200, 300>>
TierSpeed    == <<100, 100, 150, 200, 300, 400>>
TierTint     == << <<0, 0, 0>>, <<0, 0, 0>>, <<50, 0, 0>>, <<100, 20, 0>>,
                   <<150, 40, 0>>, <<200, 60, 0>> >>

BANKRUPTCY_THRESHOLD     == Sec(20)
BANKRUPTCY_SURVIVAL_TIME == Sec(5)
BankruptSpeed            == 500

-----------------------------------------------------------------------------
(* Bounds of the exploration *)

MaxCalls == 7      \* handler calls explored per run
PreRecorded == 9   \* frames recorded before the reversal runs start
LongRecorded == 48 \* frames recorded before the late-level runs start
MaxSetupCalls == 3 \* handler calls explored around the flowing frames
MaxWaves == 2      \* resonance waves followed to their end
MaxLateCalls == 5  \* handler calls explored per late-level run

-----------------------------------------------------------------------------
(* Event bus: the sequence of events one handler emits *)

Ev(name, a, b) == [name |-> name, a |-> a, b |-> b]

\* MomentumSystem's subscriptions to TIME_FROZEN and TIME_UNFROZEN
_on_time_frozen(s)   == [s EXCEPT !.mo.is_frozen = TRUE]
_on_time_unfrozen(s) == [s EXCEPT !.mo.is_frozen = FALSE]

\* emit runs the subscribed callbacks before it returns
emit(s, ev) ==
    LET s1 == [s EXCEPT !.bus = Append(@, ev)] IN
    IF ev.name = "TIME_FROZEN" THEN _on_time_frozen(s1)
    ELSE IF ev.name = "TIME_UNFROZEN" THEN _on_time_unfrozen(s1)
    ELSE s1

Count(seq, name) == Cardinality({i \in 1..Len(seq) : seq[i].name = name})

-----------------------------------------------------------------------------
(* DebtManager *)

DebtManager_init ==
    [ current_debt       |-> 0,
      current_tier       |-> 0,
      is_bankrupt        |-> FALSE,
      bankruptcy_timer   |-> 0,
      total_debt_accrued |-> 0,
      total_debt_repaid  |-> 0,
      peak_debt          |-> 0,
      times_bankrupt     |-> 0,
      previous_tier      |-> 0 ]

get_interest_rate(d) == TierInterest[d.current_tier + 1]

get_world_speed_multiplier(d) ==
    IF d.is_bankrupt THEN BankruptSpeed ELSE TierSpeed[d.current_tier + 1]

get_tier_tint(d) == TierTint[d.current_tier + 1]

\* the tier computed by _update_tier ("Correct tier calculation")
new_tier(debt) ==
    IF debt = 0 THEN 0
    ELSE IF debt <= Sec(3) THEN 1
    ELSE IF debt <= Sec(6) THEN 2
    ELSE IF debt <= Sec(10) THEN 3
    ELSE IF debt <= Sec(15) THEN 4
    ELSE 5

\* _update_tier without the new_tier != previous_tier test
_update_tier_every_call(s) ==
    LET nt == new_tier(s.dm.current_debt) IN
    emit([s EXCEPT !.dm.current_tier = nt, !.dm.previous_tier = nt],
         Ev("DEBT_TIER_CHANGED", s.dm.previous_tier, nt))

_update_tier(s) ==
    LET nt == new_tier(s.dm.current_debt) IN
    IF nt # s.dm.previous_tier
    THEN emit([s EXCEPT !.dm.current_tier = nt, !.dm.previous_tier = nt],
              Ev("DEBT_TIER_CHANGED", s.dm.previous_tier, nt))
    ELSE s

_trigger_bankruptcy(s) ==
    emit([s EXCEPT !.dm.is_bankrupt = TRUE,
                   !.dm.bankruptcy_timer = 0,
                   !.dm.times_bankrupt = @ + 1],
         Ev("BANKRUPTCY_STARTED", s.dm.current_debt, s.dm.times_bankrupt + 1))

_end_bankruptcy(s) ==
    emit([s EXCEPT !.dm.is_bankrupt = FALSE,
                   !.dm.bankruptcy_timer = 0],
         Ev("BANKRUPTCY_ENDED", s.dm.current_debt, BANKRUPTCY_SURVIVAL_TIME))

\* accrue_debt adding the base amount without the tier's interest
accrue_debt_flat(s, amount) ==
    IF amount <= 0 THEN s
    ELSE
      LET actual_debt   == amount
          old_debt      == s.dm.current_debt
          s1 == [s EXCEPT !.dm.current_debt = @ + actual_debt,
                          !.dm.total_debt_accrued = @ + actual_debt,
                          !.dm.peak_debt = Max(@, old_debt + actual_debt)]
          s2 == _update_tier(s1)
          s3 == IF s2.dm.current_debt >= BANKRUPTCY_THRESHOLD /\ ~s2.dm.is_bankrupt
                THEN _trigger_bankruptcy(s2)
                ELSE s2
      IN emit(s3, Ev("DEBT_CHANGED", old_debt, s3.dm.current_debt))

\* accrue_debt triggering bankruptcy without testing is_bankrupt
accrue_debt_retrigger(s, amount) ==
    IF amount <= 0 THEN s
    ELSE
      LET interest_rate == get_interest_rate(s.dm)
          actual_debt   == (amount * interest_rate) \div 100
          old_debt      == s.dm.current_debt
          s1 == [s EXCEPT !.dm.current_debt = @ + actual_debt,
                          !.dm.total_debt_accrued = @ + actual_debt,
                          !.dm.peak_debt = Max(@, old_debt + actual_debt)]
          s2 == _update_tier(s1)
          s3 == IF s2.dm.current_debt >= BANKRUPTCY_THRESHOLD
                THEN _trigger_bankruptcy(s2)
                ELSE s2
      IN emit(s3, Ev("DEBT_CHANGED", old_debt, s3.dm.current_debt))

\* accrue_debt returning early only for amount < 0
accrue_debt_zero_passes(s, amount) ==
    IF amount < 0 THEN s
    ELSE
      LET interest_rate == get_interest_rate(s.dm)
          actual_debt   == (amount * interest_rate) \div 100
          old_debt      == s.dm.current_debt
          s1 == [s EXCEPT !.dm.current_debt = @ + actual_debt,
                          !.dm.total_debt_accrued = @ + actual_debt,
                          !.dm.peak_debt = Max(@, old_debt + actual_debt)]
          s2 == _update_tier(s1)
          s3 == IF s2.dm.current_debt >= BANKRUPTCY_THRESHOLD /\ ~s2.dm.is_bankrupt
                THEN _trigger_bankruptcy(s2)
                ELSE s2
      IN emit(s3, Ev("DEBT_CHANGED", old_debt, s3.dm.current_debt))

accrue_debt(s, amount) ==
    IF amount <= 0 THEN s
    ELSE
      LET interest_rate == get_interest_rate(s.dm)
          actual_debt   == (amount * interest_rate) \div 100
          old_debt      == s.dm.current_debt
          s1 == [s EXCEPT !.dm.current_debt = @ + actual_debt,
                          !.dm.total_debt_accrued = @ + actual_debt,
                          !.dm.peak_debt = Max(@, old_debt + actual_debt)]
          s2 == _update_tier(s1)
          s3 == IF s2.dm.current_debt >= BANKRUPTCY_THRESHOLD /\ ~s2.dm.is_bankrupt
                THEN _trigger_bankruptcy(s2)
                ELSE s2
      IN emit(s3, Ev("DEBT_CHANGED", old_debt, s3.dm.current_debt))

\* repay_debt without the clamp at 0
repay_debt_unclamped(s, real_dt) ==
    IF s.dm.current_debt <= 0 THEN s
    ELSE
      LET old_debt  == s.dm.current_debt
          repayment == real_dt
          s1 == [s EXCEPT !.dm.current_debt = @ - repayment,
                          !.dm.total_debt_repaid = @ + repayment]
          s2 == IF s1.dm.is_bankrupt
                THEN LET t == [s1 EXCEPT !.dm.bankruptcy_timer = @ + real_dt] IN
                     IF t.dm.bankruptcy_timer >= BANKRUPTCY_SURVIVAL_TIME
                     THEN _end_bankruptcy(t)
                     ELSE IF t.dm.current_debt = 0
                     THEN _end_bankruptcy(t)
                     ELSE t
                ELSE s1
          s3 == _update_tier(s2)
      IN emit(s3, Ev("DEBT_CHANGED", old_debt, s3.dm.current_debt))

repay_debt(s, real_dt) ==
    IF s.dm.current_debt <= 0 THEN s
    ELSE
      LET old_debt  == s.dm.current_debt
          repayment == real_dt
          s1 == [s EXCEPT !.dm.current_debt = Max(0, @ - repayment),
                          !.dm.total_debt_repaid = @ + repayment]
          s2 == IF s1.dm.is_bankrupt
                THEN LET t == [s1 EXCEPT !.dm.bankruptcy_timer = @ + real_dt] IN
                     IF t.dm.bankruptcy_timer >= BANKRUPTCY_SURVIVAL_TIME
                     THEN _end_bankruptcy(t)
                     ELSE IF t.dm.current_debt = 0
                     THEN _end_bankruptcy(t)
                     ELSE t
                ELSE s1
          s3 == _update_tier(s2)
      IN emit(s3, Ev("DEBT_CHANGED", old_debt, s3.dm.current_debt))

\* absorb_debt without the min(amount, current_debt) clamp
absorb_debt_unclamped(s, amount) ==
    LET actual_absorbed == amount
        old_debt        == s.dm.current_debt
        s1 == [s EXCEPT !.dm.current_debt = @ - actual_absorbed]
        s2 == _update_tier(s1)
        s3 == emit(s2, Ev("DEBT_ABSORBED", actual_absorbed, s2.dm.current_debt))
        s4 == emit(s3, Ev("DEBT_CHANGED", old_debt, s3.dm.current_debt))
    IN [s4 EXCEPT !.ret = actual_absorbed]

absorb_debt(s, amount) ==
    LET actual_absorbed == Min(amount, s.dm.current_debt)
        old_debt        == s.dm.current_debt
        s1 == [s EXCEPT !.dm.current_debt = @ - actual_absorbed]
        s2 == _update_tier(s1)
        s3 == emit(s2, Ev("DEBT_ABSORBED", actual_absorbed, s2.dm.current_debt))
        s4 == emit(s3, Ev("DEBT_CHANGED", old_debt, s3.dm.current_debt))
    IN [s4 EXCEPT !.ret = actual_absorbed]

\* reset leaving the cached _previous_tier as it was
DebtManager_reset_stale_cache(s) ==
    emit([s EXCEPT !.dm.current_debt = 0,
                   !.dm.current_tier = 0,
                   !.dm.is_bankrupt = FALSE,
                   !.dm.bankruptcy_timer = 0],
         Ev("DEBT_CHANGED", 0, 0))

DebtManager_reset(s) ==
    emit([s EXCEPT !.dm.current_debt = 0,
                   !.dm.current_tier = 0,
                   !.dm.is_bankrupt = FALSE,
                   !.dm.bankruptcy_timer = 0,
                   !.dm.previous_tier = 0],
         Ev("DEBT_CHANGED", 0, 0))

-----------------------------------------------------------------------------
(* TimeEngine *)

TimeEngine_init ==
    [ frozen            |-> FALSE,
      time_scale        |-> 100,
      freeze_duration   |-> 0,
      total_freeze_time |-> 0,
      last_game_dt      |-> 0 ]

_update_time_scale(s) ==
    [s EXCEPT !.te.time_scale = get_world_speed_multiplier(s.dm)]

\* freeze without the already-frozen early return
freeze_unguarded(s) ==
    emit([s EXCEPT !.te.frozen = TRUE,
                   !.te.freeze_duration = 0,
                   !.te.time_scale = 0],
         Ev("TIME_FROZEN", s.te.total_freeze_time, 0))

freeze(s) ==
    IF s.te.frozen THEN s
    ELSE emit([s EXCEPT !.te.frozen = TRUE,
                        !.te.freeze_duration = 0,
                        !.te.time_scale = 0],
              Ev("TIME_FROZEN", s.te.total_freeze_time, 0))

unfreeze(s) ==
    IF ~s.te.frozen THEN s
    ELSE
      LET freeze_cost == s.te.freeze_duration
          s1 == [s EXCEPT !.te.frozen = FALSE,
                          !.te.total_freeze_time = @ + s.te.freeze_duration]
          s2 == _update_time_scale(s1)
      IN emit(s2, Ev("TIME_UNFROZEN", freeze_cost, s2.te.time_scale))

\* update that charges the freeze once, on its first frozen frame
update_one_shot(s, real_dt) ==
    IF s.te.frozen
    THEN
      LET s1 == [s EXCEPT !.te.freeze_duration = @ + real_dt]
          debt_amount == (real_dt * DEBT_ACCRUAL_RATE) \div 100
          s2 == IF s.te.freeze_duration = 0
                THEN accrue_debt(s1, debt_amount) ELSE s1
      IN [s2 EXCEPT !.te.last_game_dt = 0]
    ELSE
      LET s1 == _update_time_scale(s)
          s2 == [s1 EXCEPT !.te.last_game_dt = (real_dt * s1.te.time_scale) \div 100]
      IN IF s2.dm.current_debt > 0 THEN repay_debt(s2, real_dt) ELSE s2

update(s, real_dt) ==
    IF s.te.frozen
    THEN
      LET s1 == [s EXCEPT !.te.freeze_duration = @ + real_dt]
          debt_amount == (real_dt * DEBT_ACCRUAL_RATE) \div 100
          s2 == accrue_debt(s1, debt_amount)
      IN [s2 EXCEPT !.te.last_game_dt = 0]
    ELSE
      LET s1 == _update_time_scale(s)
          s2 == [s1 EXCEPT !.te.last_game_dt = (real_dt * s1.te.time_scale) \div 100]
      IN IF s2.dm.current_debt > 0 THEN repay_debt(s2, real_dt) ELSE s2

get_game_dt(t) == t.last_game_dt

TimeEngine_reset(s) ==
    [s EXCEPT !.te.frozen = FALSE,
              !.te.time_scale = 100,
              !.te.freeze_duration = 0,
              !.te.last_game_dt = 0]

-----------------------------------------------------------------------------
(* Objects a handler returns: None, or Some(value) *)

None    == [none |-> TRUE, val |-> <<>>]
Some(v) == [none |-> FALSE, val |-> v]

-----------------------------------------------------------------------------
(* AnchorSystem *)

MAX_ANCHORS        == 3
ANCHOR_DECAY_TIME  == Sec(30)
ANCHOR_RECALL_DEBT == Sec(2)

Slots == 0 .. (MAX_ANCHORS - 1)

\* an empty slot (None in the anchors list)
NoAnchor ==
    [occ |-> FALSE, position |-> <<0, 0>>, remaining_time |-> 0, index |-> 0]

\* TimeAnchor(position, creation_time = 0, remaining_time, index)
TimeAnchor(position, remaining_time, index) ==
    [occ |-> TRUE, position |-> position, remaining_time |-> remaining_time,
     index |-> index]

AnchorSystem_init == [anchors |-> [i \in Slots |-> NoAnchor]]

get_anchor_count(a) == Cardinality({i \in Slots : a.anchors[i].occ})

\* Vector2.distance_squared_to
distance_squared_to(p, q) ==
    (q[1] - p[1]) * (q[1] - p[1]) + (q[2] - p[2]) * (q[2] - p[2])

\* _find_oldest_anchor that picks the greatest remaining_time
_find_oldest_anchor_newest(a) ==
    LET O == {i \in Slots : a.anchors[i].occ} IN
    IF O = {} THEN 0 - 1
    ELSE CHOOSE i \in O : \A j \in O :
             \/ a.anchors[i].remaining_time > a.anchors[j].remaining_time
             \/ /\ a.anchors[i].remaining_time = a.anchors[j].remaining_time
                /\ i <= j

\* first index among those of least remaining_time; -1 for None
_find_oldest_anchor(a) ==
    LET O == {i \in Slots : a.anchors[i].occ} IN
    IF O = {} THEN 0 - 1
    ELSE CHOOSE i \in O : \A j \in O :
             \/ a.anchors[i].remaining_time < a.anchors[j].remaining_time
             \/ /\ a.anchors[i].remaining_time = a.anchors[j].remaining_time
                /\ i <= j

remove_anchor(s, index) ==
    IF index < 0 \/ index >= MAX_ANCHORS THEN s
    ELSE IF s.an.anchors[index].occ
    THEN emit([s EXCEPT !.an.anchors[index] = NoAnchor],
              Ev("ANCHOR_EXPIRED", index, 0))
    ELSE s

place_anchor(s, position) ==
    LET E == {i \in Slots : ~s.an.anchors[i].occ}
        full == emit(s, Ev("ANCHOR_LIMIT_REACHED", MAX_ANCHORS, 0))
        oldest_index == _find_oldest_anchor(full.an)
        empty_slot == IF E # {} THEN CHOOSE i \in E : \A j \in E : i <= j
                      ELSE oldest_index
        s1 == IF E # {} THEN s ELSE remove_anchor(full, oldest_index)
    IN
    IF empty_slot < 0 THEN [full EXCEPT !.obj = None]
    ELSE
      LET anchor == TimeAnchor(position, ANCHOR_DECAY_TIME, empty_slot)
          s2 == [s1 EXCEPT !.an.anchors[empty_slot] = anchor]
          s3 == emit(s2, Ev("ANCHOR_PLACED", empty_slot,
                            get_anchor_count(s2.an)))
      IN [s3 EXCEPT !.obj = Some(anchor)]

\* recall_to_anchor that forgets to clear the slot
recall_to_anchor_keeps_slot(s, index) ==
    IF index < 0 \/ index >= MAX_ANCHORS THEN [s EXCEPT !.obj = None]
    ELSE IF ~s.an.anchors[index].occ THEN [s EXCEPT !.obj = None]
    ELSE
      LET position == s.an.anchors[index].position
          s1 == accrue_debt(s, ANCHOR_RECALL_DEBT)
          s3 == emit(s1, Ev("ANCHOR_RECALLED", index, ANCHOR_RECALL_DEBT))
      IN [s3 EXCEPT !.obj = Some(position)]

\* recall_to_anchor that charges before it looks at the slot
recall_to_anchor_charges_first(s, index) ==
    LET s0 == accrue_debt(s, ANCHOR_RECALL_DEBT) IN
    IF index < 0 \/ index >= MAX_ANCHORS THEN [s0 EXCEPT !.obj = None]
    ELSE IF ~s0.an.anchors[index].occ THEN [s0 EXCEPT !.obj = None]
    ELSE
      LET position == s0.an.anchors[index].position
          s2 == [s0 EXCEPT !.an.anchors[index] = NoAnchor]
          s3 == emit(s2, Ev("ANCHOR_RECALLED", index, ANCHOR_RECALL_DEBT))
      IN [s3 EXCEPT !.obj = Some(position)]

recall_to_anchor(s, index) ==
    IF index < 0 \/ index >= MAX_ANCHORS THEN [s EXCEPT !.obj = None]
    ELSE IF ~s.an.anchors[index].occ THEN [s EXCEPT !.obj = None]
    ELSE
      LET position == s.an.anchors[index].position
          s1 == accrue_debt(s, ANCHOR_RECALL_DEBT)
          s2 == [s1 EXCEPT !.an.anchors[index] = NoAnchor]
          s3 == emit(s2, Ev("ANCHOR_RECALLED", index, ANCHOR_RECALL_DEBT))
      IN [s3 EXCEPT !.obj = Some(position)]

recall_to_nearest(s, current_position) ==
    LET O == {i \in Slots : s.an.anchors[i].occ}
        dist(i) == distance_squared_to(current_position,
                                       s.an.anchors[i].position)
    IN
    IF O = {} THEN [s EXCEPT !.obj = None]
    ELSE recall_to_anchor(s,
             CHOOSE i \in O : \A j \in O :
                 dist(i) < dist(j) \/ (dist(i) = dist(j) /\ i <= j))

\* TimeAnchor.update and the slot's part of AnchorSystem.update
_update_slot(s, i, dt) ==
    IF ~s.an.anchors[i].occ THEN s
    ELSE
      LET s1 == [s EXCEPT !.an.anchors[i].remaining_time = @ - dt] IN
      IF s1.an.anchors[i].remaining_time <= 0
      THEN emit([s1 EXCEPT !.an.anchors[i] = NoAnchor],
                Ev("ANCHOR_EXPIRED", i, 0))
      ELSE s1

RECURSIVE _update_from(_, _, _)
_update_from(s, i, dt) ==
    IF i >= MAX_ANCHORS THEN s
    ELSE _update_from(_update_slot(s, i, dt), i + 1, dt)

\* AnchorSystem.update without the removal of expired anchors
AnchorSystem_update_no_expiry(s, dt) ==
    [s EXCEPT !.an.anchors =
        [i \in Slots |-> IF @[i].occ
                         THEN [@[i] EXCEPT !.remaining_time = @ - dt]
                         ELSE @[i]]]

AnchorSystem_update(s, dt) == _update_from(s, 0, dt)

clear_all(s) == [s EXCEPT !.an.anchors = [i \in Slots |-> NoAnchor]]

-----------------------------------------------------------------------------
(* MomentumSystem: momentum points on the scale of seconds (1 point =      *)
(* Sec(1) units), rates and reductions in hundredths                       *)

MAX_MOMENTUM             == Sec(10)
BUILD_RATE               == 100
DRAIN_RATE               == 200
DEBT_REDUCTION_PER_POINT == 5
MAX_DEBT_REDUCTION       == 50
MILESTONES               == {3, 6, 10}

MomentumSystem_init ==
    [ momentum              |-> 0,
      is_frozen             |-> FALSE,
      last_milestone        |-> 0,
      peak_momentum         |-> 0,
      total_momentum_earned |-> 0,
      times_max_reached     |-> 0 ]

\* momentum / MAX_MOMENTUM, in thousandths
momentum_percentage(m) == (m.momentum * 1000) \div MAX_MOMENTUM

\* 1.0 - min(momentum * 0.05, 0.5), in hundredths on the scale of Sec
debt_reduction_multiplier(m) ==
    LET reduction == Min(m.momentum * DEBT_REDUCTION_PER_POINT,
                         Sec(MAX_DEBT_REDUCTION))
    IN Sec(100) - reduction

_check_milestones(s) ==
    LET R == {t \in MILESTONES : s.mo.momentum >= Sec(t)}
        current_milestone ==
            IF R = {} THEN 0 ELSE CHOOSE t \in R : \A u \in R : u <= t
    IN IF current_milestone > s.mo.last_milestone
       THEN [s EXCEPT !.mo.last_milestone = current_milestone]
       ELSE s

\* update without the max(0, .) and min(MAX_MOMENTUM, .) clamps
MomentumSystem_update_unclamped(s, dt) ==
    LET old_momentum == s.mo.momentum
        m  == IF s.mo.is_frozen
              THEN old_momentum - (DRAIN_RATE * dt) \div 100
              ELSE old_momentum + (BUILD_RATE * dt) \div 100
        s1 == [s EXCEPT !.mo.momentum = m,
                        !.mo.peak_momentum = Max(@, m),
                        !.mo.total_momentum_earned =
                            IF old_momentum < m THEN @ + (m - old_momentum)
                            ELSE @]
        s2 == IF m >= MAX_MOMENTUM /\ old_momentum < MAX_MOMENTUM
              THEN emit([s1 EXCEPT !.mo.times_max_reached = @ + 1],
                        Ev("DEBT_CHANGED", 0, 0))
              ELSE s1
    IN _check_milestones(s2)

MomentumSystem_update(s, dt) ==
    LET old_momentum == s.mo.momentum
        m  == IF s.mo.is_frozen
              THEN Max(0, old_momentum - (DRAIN_RATE * dt) \div 100)
              ELSE Min(MAX_MOMENTUM, old_momentum + (BUILD_RATE * dt) \div 100)
        s1 == [s EXCEPT !.mo.momentum = m,
                        !.mo.peak_momentum = Max(@, m),
                        !.mo.total_momentum_earned =
                            IF old_momentum < m THEN @ + (m - old_momentum)
                            ELSE @]
        s2 == IF m >= MAX_MOMENTUM /\ old_momentum < MAX_MOMENTUM
              THEN emit([s1 EXCEPT !.mo.times_max_reached = @ + 1],
                        Ev("DEBT_CHANGED", 0, 0))
              ELSE s1
    IN _check_milestones(s2)

MomentumSystem_reset(s) ==
    [s EXCEPT !.mo.momentum = 0, !.mo.last_milestone = 0]

-----------------------------------------------------------------------------
(* TimeReversalSystem *)

RECORDING_DURATION     == Sec(5)
RECORDING_INTERVAL     == Sec(1) \div 10
REWIND_DURATION        == Sec(3)
DEBT_COST              == Sec(8)
USES_PER_LIFE          == 1
REWIND_VISUAL_DURATION == Sec(1)
MAX_SNAPSHOTS          == RECORDING_DURATION \div RECORDING_INTERVAL

TimeReversalSystem_init ==
    [ snapshots       |-> <<>>,
      record_timer    |-> 0,
      recording_time  |-> 0,
      uses_remaining  |-> USES_PER_LIFE,
      total_uses      |-> 0,
      is_rewinding    |-> FALSE,
      rewind_timer    |-> 0,
      target_snapshot |-> None ]

can_rewind(t) ==
    t.uses_remaining > 0 /\ Len(t.snapshots) >= 10 /\ ~t.is_rewinding

GameStateSnapshot(timestamp, player_pos, player_vel, debt, tier) ==
    [ timestamp       |-> timestamp,
      player_position |-> player_pos,
      player_velocity |-> player_vel,
      debt_amount     |-> debt,
      debt_tier       |-> tier ]

\* a deque without maxlen
deque_append_unbounded(q, x) == Append(q, x)

\* deque(maxlen = MAX_SNAPSHOTS).append
deque_append(q, x) ==
    IF Len(q) >= MAX_SNAPSHOTS THEN Append(Tail(q), x) ELSE Append(q, x)

\* record_state that keeps sampling during the rewind effect
record_state_during_rewind(s, player_pos, player_vel, debt, tier, dt) ==
    LET s1 == [s EXCEPT !.tr.record_timer = @ + dt,
                        !.tr.recording_time = @ + dt]
    IN IF s1.tr.record_timer >= RECORDING_INTERVAL
       THEN [s1 EXCEPT !.tr.record_timer = 0,
                       !.tr.snapshots = deque_append(@,
                           GameStateSnapshot(s1.tr.recording_time,
                               player_pos, player_vel, debt, tier))]
       ELSE s1

record_state(s, player_pos, player_vel, debt, tier, dt) ==
    IF s.tr.is_rewinding THEN s
    ELSE
      LET s1 == [s EXCEPT !.tr.record_timer = @ + dt,
                          !.tr.recording_time = @ + dt]
      IN IF s1.tr.record_timer >= RECORDING_INTERVAL
         THEN [s1 EXCEPT !.tr.record_timer = 0,
                         !.tr.snapshots = deque_append(@,
                             GameStateSnapshot(s1.tr.recording_time,
                                 player_pos, player_vel, debt, tier))]
         ELSE s1

\* initiate_rewind without the can_rewind test
initiate_rewind_unchecked(s) ==
    LET q == s.tr.snapshots
        target_time == s.tr.recording_time - REWIND_DURATION
        K == {k \in 0 .. Len(q) :
                \A i \in 1 .. k : q[i].timestamp <= target_time}
        k == CHOOSE c \in K : \A j \in K : j <= c
    IN
    IF q = <<>> THEN [s EXCEPT !.obj = None]
    ELSE
      LET target_snapshot == IF k = 0 THEN q[1] ELSE q[k]
          s1 == accrue_debt(s, DEBT_COST)
          s2 == [s1 EXCEPT !.tr.is_rewinding = TRUE,
                           !.tr.rewind_timer = 0,
                           !.tr.target_snapshot = Some(target_snapshot),
                           !.tr.uses_remaining = @ - 1,
                           !.tr.total_uses = @ + 1]
          s3 == emit(s2, Ev("DEBT_CHANGED", DEBT_COST, 0))
      IN [s3 EXCEPT !.obj = Some(target_snapshot)]

\* initiate_rewind that always goes back to the oldest snapshot
initiate_rewind_oldest(s) ==
    IF ~can_rewind(s.tr) THEN [s EXCEPT !.obj = None]
    ELSE
      LET target_snapshot == s.tr.snapshots[1]
          s1 == accrue_debt(s, DEBT_COST)
          s2 == [s1 EXCEPT !.tr.is_rewinding = TRUE,
                           !.tr.rewind_timer = 0,
                           !.tr.target_snapshot = Some(target_snapshot),
                           !.tr.uses_remaining = @ - 1,
                           !.tr.total_uses = @ + 1]
          s3 == emit(s2, Ev("DEBT_CHANGED", DEBT_COST, 0))
      IN [s3 EXCEPT !.obj = Some(target_snapshot)]

initiate_rewind(s) ==
    IF ~can_rewind(s.tr) THEN [s EXCEPT !.obj = None]
    ELSE
      LET q == s.tr.snapshots
          target_time == s.tr.recording_time - REWIND_DURATION
          K == {k \in 0 .. Len(q) :
                  \A i \in 1 .. k : q[i].timestamp <= target_time}
          k == CHOOSE c \in K : \A j \in K : j <= c
      IN
      IF q = <<>> THEN [s EXCEPT !.obj = None]
      ELSE
        LET target_snapshot == IF k = 0 THEN q[1] ELSE q[k]
            s1 == accrue_debt(s, DEBT_COST)
            s2 == [s1 EXCEPT !.tr.is_rewinding = TRUE,
                             !.tr.rewind_timer = 0,
                             !.tr.target_snapshot = Some(target_snapshot),
                             !.tr.uses_remaining = @ - 1,
                             !.tr.total_uses = @ + 1]
            s3 == emit(s2, Ev("DEBT_CHANGED", DEBT_COST, 0))
        IN [s3 EXCEPT !.obj = Some(target_snapshot)]

\* update that hands the use back when the rewind effect ends
TimeReversalSystem_update_recharges(s, dt) ==
    IF ~s.tr.is_rewinding THEN s
    ELSE
      LET s1 == [s EXCEPT !.tr.rewind_timer = @ + dt] IN
      IF s1.tr.rewind_timer >= REWIND_VISUAL_DURATION
      THEN [s1 EXCEPT !.tr.is_rewinding = FALSE,
                      !.tr.target_snapshot = None,
                      !.tr.uses_remaining = USES_PER_LIFE]
      ELSE s1

TimeReversalSystem_update(s, dt) ==
    IF ~s.tr.is_rewinding THEN s
    ELSE
      LET s1 == [s EXCEPT !.tr.rewind_timer = @ + dt] IN
      IF s1.tr.rewind_timer >= REWIND_VISUAL_DURATION
      THEN [s1 EXCEPT !.tr.is_rewinding = FALSE,
                      !.tr.target_snapshot = None]
      ELSE s1

recharge_at_checkpoint(s) ==
    IF s.tr.uses_remaining < USES_PER_LIFE
    THEN emit([s EXCEPT !.tr.uses_remaining = USES_PER_LIFE],
              Ev("CHECKPOINT_REACHED", 0, 0))
    ELSE s

TimeReversalSystem_reset(s) ==
    [s EXCEPT !.tr.snapshots = <<>>,
              !.tr.record_timer = 0,
              !.tr.recording_time = 0,
              !.tr.uses_remaining = USES_PER_LIFE,
              !.tr.is_rewinding = FALSE,
              !.tr.target_snapshot = None]

-----------------------------------------------------------------------------
(* ResonanceSystem: phases CALM -> WARNING -> ACTIVE -> AFTERMATH; the     *)
(* interval random.uniform draws is an input of the operations that draw   *)
(* it; particles and the visual fields are left out                        *)

MIN_WAVE_INTERVAL  == Sec(15)
MAX_WAVE_INTERVAL  == Sec(20)
WARNING_DURATION   == Sec(2)
WAVE_DURATION      == Sec(3) \div 2
AFTERMATH_DURATION == Sec(1)
FROZEN_PENALTY     == Sec(3)
MOVING_BONUS       == Sec(1) \div 2

\* the timer value below which _update_wave_effects charges the penalty
PenaltyWindow == Sec(1) \div 10
\* the frame length _update_wave_effects assumes for the bonus (0.016 s)
BonusFrame    == (Sec(1) * 16) \div 1000

\* the intervals _calculate_next_wave_time can draw: the two ends of the range
WaveIntervals == {MIN_WAVE_INTERVAL, MAX_WAVE_INTERVAL}

ResonanceSystem_init(next_wave_time) ==
    [phase |-> "CALM", timer |-> 0, next_wave_time |-> next_wave_time,
     waves_survived |-> 0, waves_penalized |-> 0, total_bonus_earned |-> 0,
     enabled |-> TRUE]

_start_warning(s) ==
    LET s1 == [s EXCEPT !.rs.phase = "WARNING", !.rs.timer = 0]
    IN emit(s1, Ev("DEBT_CHANGED", 0, 0))

_start_wave(s) == [s EXCEPT !.rs.phase = "ACTIVE", !.rs.timer = 0]

_update_wave_effects(s, player_moving) ==
    IF s.te.frozen
    THEN IF s.rs.timer < PenaltyWindow
         THEN LET s1 == accrue_debt(s, FROZEN_PENALTY)
                  s2 == [s1 EXCEPT !.rs.waves_penalized = @ + 1]
              IN emit(s2, Ev("DEBT_CHANGED", FROZEN_PENALTY, 0))
         ELSE s
    ELSE IF player_moving
    THEN LET bonus_per_frame == (MOVING_BONUS * BonusFrame) \div WAVE_DURATION
             s1 == absorb_debt(s, bonus_per_frame)
         IN [s1 EXCEPT !.rs.total_bonus_earned = @ + s1.ret, !.ret = s.ret]
    ELSE s

_end_wave(s) ==
    [s EXCEPT !.rs.phase = "AFTERMATH", !.rs.timer = 0,
              !.rs.waves_survived = @ + 1]

_reset_cycle(s, next_wave_time) ==
    [s EXCEPT !.rs.phase = "CALM", !.rs.timer = 0,
              !.rs.next_wave_time = next_wave_time]

\* update whose phase tests are separate ifs, so one call can fall through
\* several phases
ResonanceSystem_update_fall_through(s, dt, player_moving, next_wave_time) ==
    LET s0 == [s EXCEPT !.rs.timer = @ + dt]
        s1 == IF s0.rs.phase = "CALM" /\ s0.rs.timer >= s0.rs.next_wave_time
              THEN _start_warning(s0) ELSE s0
        s2 == IF s1.rs.phase = "WARNING" /\ s0.rs.timer >= WARNING_DURATION
              THEN _start_wave(s1) ELSE s1
        s3 == IF s2.rs.phase = "ACTIVE" /\ s0.rs.timer >= WAVE_DURATION
              THEN _end_wave(s2) ELSE s2
    IN IF s3.rs.phase = "AFTERMATH" /\ s0.rs.timer >= AFTERMATH_DURATION
       THEN _reset_cycle(s3, next_wave_time) ELSE s3

ResonanceSystem_update(s, dt, player_moving, next_wave_time) ==
    IF ~s.rs.enabled THEN s
    ELSE
      LET s0 == [s EXCEPT !.rs.timer = @ + dt] IN
      IF s0.rs.phase = "CALM"
      THEN IF s0.rs.timer >= s0.rs.next_wave_time
           THEN _start_warning(s0) ELSE s0
      ELSE IF s0.rs.phase = "WARNING"
      THEN IF s0.rs.timer >= WARNING_DURATION
           THEN _start_wave(s0) ELSE s0
      ELSE IF s0.rs.phase = "ACTIVE"
      THEN LET s1 == _update_wave_effects(s0, player_moving) IN
           IF s1.rs.timer >= WAVE_DURATION THEN _end_wave(s1) ELSE s1
      ELSE IF s0.rs.phase = "AFTERMATH"
      THEN IF s0.rs.timer >= AFTERMATH_DURATION
           THEN _reset_cycle(s0, next_wave_time) ELSE s0
      ELSE s0

ResonanceSystem_reset(s, next_wave_time) ==
    [s EXCEPT !.rs.phase = "CALM", !.rs.timer = 0,
              !.rs.next_wave_time = next_wave_time]

-----------------------------------------------------------------------------
(* EchoSystem: per entity, the frames of its predicted path; positions in  *)
(* hundredths of a pixel; colour, size and alpha serve rendering only and  *)
(* are left out; the noise an inaccurate prediction draws is an input      *)

ECHO_PREDICTION_DURATION == Sec(3)
ECHO_INTERVAL            == Sec(1) \div 10

\* n pixels in model units
Px(n) == n * 100

EntityIds == {"drone", "crate"}

\* the noise get_predicted_positions can draw, in parts of its amplitude:
\* either end of the range
NoiseDraws == {0 - 1, 1}

EchoSystem_init ==
    [echoes   |-> [id \in EntityIds |-> [tracked |-> FALSE, frames |-> <<>>]],
     active   |-> FALSE,
     accuracy |-> Sec(1)]

activate(s) == [s EXCEPT !.ec.active = TRUE]

deactivate(s) == [s EXCEPT !.ec.active = FALSE]

register_entity(s, entity_id) ==
    [s EXCEPT !.ec.echoes[entity_id] = [tracked |-> TRUE, frames |-> <<>>]]

\* BaseEntity.get_predicted_positions: linear motion, one frame per interval
\* up to the duration, each displaced by noise when accuracy < 1. The frames
\* are counted in exact arithmetic; the float sum of the intervals can pass
\* the duration one step early and drop the last frame.
get_predicted_positions(entity, duration, interval, accuracy, draw) ==
    LET noise == IF accuracy < Sec(1)
                 THEN (Px(10) * (Sec(1) - accuracy)) \div Sec(1)
                 ELSE 0
    IN [k \in 1 .. (duration \div interval) |->
          [position  |->
               << entity.position[1]
                    + (entity.velocity[1] * k * interval) \div Sec(1)
                    + draw * noise,
                  entity.position[2]
                    + (entity.velocity[2] * k * interval) \div Sec(1)
                    + draw * noise >>,
           timestamp |-> k * interval]]

\* EntityEcho.update_prediction: the old frames are replaced by the new ones
update_prediction(s, entity_id, positions) ==
    [s EXCEPT !.ec.echoes[entity_id].frames = positions]

\* the body of the loop of EchoSystem.update for entities[i .. ]
RECURSIVE _update_entities(_, _, _, _)
_update_entities(s, entities, i, draw) ==
    IF i > Len(entities) THEN s
    ELSE
      LET entity == entities[i]
          s1 == IF ~s.ec.echoes[entity.id].tracked
                THEN register_entity(s, entity.id) ELSE s
          predictions == get_predicted_positions(entity,
                             ECHO_PREDICTION_DURATION, ECHO_INTERVAL,
                             s1.ec.accuracy, draw)
      IN _update_entities(update_prediction(s1, entity.id, predictions),
                          entities, i + 1, draw)

EchoSystem_update(s, entities, debt_level, draw) ==
    IF ~s.ec.active THEN s
    ELSE
      LET s1 == [s EXCEPT !.ec.accuracy =
                     Max(Sec(1) \div 2, Sec(1) - debt_level \div 30)]
      IN _update_entities(s1, entities, 1, draw)

-----------------------------------------------------------------------------
(* Handlers as actions *)

World ==
    [dm |-> dm, te |-> te, an |-> an, mo |-> mo, tr |-> tr, rs |-> rs,
     ec |-> ec, bus |-> <<>>, ret |-> 0, obj |-> None]

\* the slots a handler returning r has filled or freed
Touched(r) == {i \in Slots : r.an.anchors[i].occ # an.anchors[i].occ}

\* the record of the current wave after handler op has returned r: the
\* penalties charged in it, whether the world has been frozen at every
\* moment since it began, whether every update in it had 0 < dt <= 0.1 s
wave_after(op, arg, r) ==
    IF r.rs.phase = "ACTIVE" /\ rs.phase # "ACTIVE"
    THEN [penalties |-> 0, frozen |-> r.te.frozen, small |-> TRUE,
          rebate |-> 0, moving |-> TRUE]
    ELSE IF rs.phase = "ACTIVE"
    THEN [penalties |-> hist.wave.penalties
                          + (r.rs.waves_penalized - rs.waves_penalized),
          frozen    |-> hist.wave.frozen /\ te.frozen /\ r.te.frozen,
          small     |-> hist.wave.small
                          /\ (op \in {"resonance_update", "update_gameplay"}
                                => arg > 0 /\ arg <= PenaltyWindow),
          rebate    |-> hist.wave.rebate
                          + (r.rs.total_bonus_earned - rs.total_bonus_earned),
          moving    |-> hist.wave.moving
                          /\ (op \in {"resonance_update", "update_gameplay"}
                                => /\ ~r.te.frozen
                                   /\ r.rs.total_bonus_earned
                                        > rs.total_bonus_earned
                                   /\ r.dm.current_debt > 0)]
    ELSE hist.wave

\* the record of what record_state was passed at each recording time at
\* which a snapshot fell due; a reset starts the recording time again from 0
recorded_after(op, arg, r) ==
    IF op = "record_state" /\ ~tr.is_rewinding
       /\ tr.record_timer + arg.dt >= RECORDING_INTERVAL
    THEN hist.recorded \union
           {[timestamp |-> tr.recording_time + arg.dt,
             position  |-> arg.player_pos,
             debt      |-> arg.debt]}
    ELSE IF op \in {"reversal_reset", "restart_level"}
    THEN {}
    ELSE hist.recorded

\* the history of the slots after handler op has returned r
slots_after(op, arg, r) ==
    IF op = "place_anchor" /\ ~r.obj.none
    THEN [hist EXCEPT !.position[r.obj.val.index] = arg,
                      !.placed_at[r.obj.val.index] = hist.now,
                      !.recalled[r.obj.val.index] = FALSE]
    ELSE IF op \in {"recall_to_anchor", "recall_to_nearest"} /\ ~r.obj.none
    THEN [hist EXCEPT !.recalled =
              [i \in Slots |-> IF i \in Touched(r) THEN TRUE ELSE @[i]]]
    ELSE IF op = "anchor_update"
    THEN [hist EXCEPT !.now = @ + arg]
    ELSE hist

hist_after(op, arg, r) ==
    [slots_after(op, arg, r) EXCEPT !.wave = wave_after(op, arg, r),
                                    !.recorded = recorded_after(op, arg, r),
                                    !.order = IF op = "update_gameplay"
                                              THEN r.order ELSE <<>>]

Step(op, arg, r) ==
    /\ dm' = r.dm
    /\ te' = r.te
    /\ bus' = r.bus
    /\ an' = r.an
    /\ mo' = r.mo
    /\ tr' = r.tr
    /\ rs' = r.rs
    /\ ec' = r.ec
    /\ ret' = r.ret
    /\ obj' = r.obj
    /\ last' = [op |-> op, arg |-> arg]
    /\ pre' = [dm |-> dm, te |-> te, an |-> an, mo |-> mo, tr |-> tr,
               rs |-> rs, ec |-> ec]
    /\ hist' = hist_after(op, arg, r)

Call(op, arg, r) == Step(op, arg, r) /\ calls' = calls + 1

Init ==
    /\ dm = DebtManager_init
    /\ te = TimeEngine_init
    /\ bus = <<>>
    /\ an = AnchorSystem_init
    /\ mo = MomentumSystem_init
    /\ tr = TimeReversalSystem_init
    /\ rs \in {ResonanceSystem_init(w) : w \in WaveIntervals}
    /\ ec = EchoSystem_init
    /\ ret = 0
    /\ obj = None
    /\ last = [op |-> "init", arg |-> 0]
    /\ pre = [dm |-> DebtManager_init, te |-> TimeEngine_init,
              an |-> AnchorSystem_init, mo |-> MomentumSystem_init,
              tr |-> TimeReversalSystem_init, rs |-> rs, ec |-> ec]
    /\ hist = [position  |-> [i \in Slots |-> <<0, 0>>],
               placed_at |-> [i \in Slots |-> 0],
               recalled  |-> [i \in Slots |-> FALSE],
               now       |-> 0,
               wave      |-> [penalties |-> 0, frozen |-> FALSE,
                              small |-> TRUE, rebate |-> 0,
                              moving |-> TRUE],
               order     |-> <<>>,
               recorded  |-> {}]
    /\ calls = 0
    /\ scn = [phase |-> "start", elapsed |-> 0]

\* arguments explored for the Debt Manager's handlers
AccrueArgs == {Sec(0 - 5), 0, Sec(2), Sec(4)}
RepayArgs  == {0, Sec(1), Sec(5)}
AbsorbArgs == {Sec(0 - 5), 0, Sec(3), Sec(30)}

AccrueDebt(A) ==
    \E a \in A :
        LET r == accrue_debt(World, a) IN
        calls < MaxCalls /\ Call("accrue_debt", a, r) /\ UNCHANGED scn

RepayDebt(A) ==
    \E a \in A :
        LET r == repay_debt(World, a) IN
        calls < MaxCalls /\ Call("repay_debt", a, r) /\ UNCHANGED scn

AbsorbDebt(A) ==
    \E a \in A :
        LET r == absorb_debt(World, a) IN
        calls < MaxCalls /\ Call("absorb_debt", a, r) /\ UNCHANGED scn

ResetDebt ==
    LET r == DebtManager_reset(World) IN
    calls < MaxCalls /\ Call("reset", 0, r) /\ UNCHANGED scn

\* any arguments
NextDebt ==
    AccrueDebt(AccrueArgs) \/ RepayDebt(RepayArgs) \/ AbsorbDebt(AbsorbArgs)
    \/ ResetDebt

SpecDebt == Init /\ [][NextDebt]_vars

\* the arguments the repository's callers pass: never negative
NonNeg(A) == {a \in A : a >= 0}

NextDebtNonNeg ==
    AccrueDebt(NonNeg(AccrueArgs)) \/ RepayDebt(NonNeg(RepayArgs))
    \/ AbsorbDebt(NonNeg(AbsorbArgs)) \/ ResetDebt

SpecDebtNonNeg == Init /\ [][NextDebtNonNeg]_vars

-----------------------------------------------------------------------------
(* Time Engine wired to the Debt Manager, with the debt operations other   *)
(* systems make between frames (Game._update_gameplay, Game._restart_level) *)

\* frame times explored: 0.1 s (the caller's cap) and a 1 s stall
UpdateDts == {Sec(1) \div 10, Sec(1)}

Freeze ==
    LET r == freeze(World) IN
    calls < MaxCalls /\ Call("freeze", 0, r) /\ UNCHANGED scn

Unfreeze ==
    LET r == unfreeze(World) IN
    calls < MaxCalls /\ Call("unfreeze", 0, r) /\ UNCHANGED scn

Update ==
    \E dt \in UpdateDts :
        LET r == update(World, dt) IN
        calls < MaxCalls /\ Call("update", dt, r) /\ UNCHANGED scn

ResetTime ==
    LET r == TimeEngine_reset(World) IN
    calls < MaxCalls /\ Call("time_reset", 0, r) /\ UNCHANGED scn

\* other systems accrue between frames: an anchor recall (ANCHOR_RECALL_DEBT,
\* 2.0 s) or a rewind (DEBT_COST, 8.0 s); a debt sink absorbs 3.0 s
OtherAccrueArgs == {Sec(2), Sec(8)}

OtherAccrue ==
    \E a \in OtherAccrueArgs :
        LET r == accrue_debt(World, a) IN
        calls < MaxCalls /\ Call("accrue_debt", a, r) /\ UNCHANGED scn

OtherAbsorb ==
    LET r == absorb_debt(World, Sec(3)) IN
    calls < MaxCalls /\ Call("absorb_debt", Sec(3), r) /\ UNCHANGED scn

\* Game._restart_level: every system is reset, in this order
_restart_level(s, next_wave_time) ==
    TimeReversalSystem_reset(ResonanceSystem_reset(MomentumSystem_reset(
        clear_all(TimeEngine_reset(DebtManager_reset(s)))), next_wave_time))

RestartLevel ==
    \E w \in WaveIntervals :
        LET r == _restart_level(World, w) IN
        calls < MaxCalls /\ Call("restart_level", 0, r) /\ UNCHANGED scn

NextTime ==
    Freeze \/ Unfreeze \/ Update \/ ResetTime \/ OtherAccrue \/ OtherAbsorb
    \/ RestartLevel

SpecTime == Init /\ [][NextTime]_vars

\* Time that keeps flowing: the game loop calls update on every frame for
\* as long as the game runs, so this call is never withheld. From the first
\* such frame on, the freeze key stays released.
FlowDts == {Sec(1) \div 2, Sec(1)}

\* the mark a flowing frame leaves: the phase, and the parity of the number
\* of flowing frames so far
FrameFlowed ==
    ~te.frozen /\ scn' = [phase |-> "flowing", elapsed |-> 1 - scn.elapsed]

\* Time that keeps flowing: the game loop calls update on every frame for
\* as long as the game runs, so this call is never withheld. From the first
\* such frame on, the freeze key stays released.
KeepFlowing ==
    \E dt \in FlowDts :
        LET r == update(World, dt) IN
        /\ FrameFlowed
        /\ Step("update", dt, r)
        /\ UNCHANGED calls

\* what the player and the other systems did before time was left to flow
BeforeFlow ==
    /\ scn.phase = "start"
    /\ calls < MaxSetupCalls
    /\ (Freeze \/ Unfreeze \/ OtherAccrue)

SinkArgs == {Sec(3), Sec(60)}

\* a debt sink, before or between the flowing frames
Sink == calls < MaxSetupCalls /\ AbsorbDebt(SinkArgs)

NextFlow == KeepFlowing \/ BeforeFlow \/ Sink

\* the steps that satisfy FrameFlowed are the KeepFlowing steps, and it is
\* enabled exactly when KeepFlowing is
SpecFlow == Init /\ [][NextFlow]_vars /\ WF_scn(FrameFlowed)

-----------------------------------------------------------------------------
(* The freeze-then-repay scenario: freeze at debt 0, frozen frames summing *)
(* to FreezeTime, unfreeze, flowing frames up to RepayHorizon              *)

FrameDts     == {Sec(1) \div 20, Sec(1) \div 10}
FreezeTime   == Sec(4)
RepayTime    == Sec(6)
RepayHorizon == Sec(7)

ScnFreeze ==
    /\ scn.phase = "start"
    /\ Call("freeze", 0, freeze(World))
    /\ scn' = [phase |-> "frozen", elapsed |-> 0]

ScnFrozenUpdate ==
    /\ scn.phase = "frozen"
    /\ \E dt \in FrameDts :
        /\ scn.elapsed + dt <= FreezeTime
        /\ Call("update", dt, update(World, dt))
        /\ scn' = [scn EXCEPT !.elapsed = @ + dt]

ScnUnfreeze ==
    /\ scn.phase = "frozen"
    /\ scn.elapsed = FreezeTime
    /\ Call("unfreeze", 0, unfreeze(World))
    /\ scn' = [phase |-> "flowing", elapsed |-> 0]

ScnFlowUpdate ==
    /\ scn.phase = "flowing"
    /\ \E dt \in FrameDts :
        /\ scn.elapsed + dt <= RepayHorizon
        /\ Call("update", dt, update(World, dt))
        /\ scn' = [scn EXCEPT !.elapsed = @ + dt]

NextScenario == ScnFreeze \/ ScnFrozenUpdate \/ ScnUnfreeze \/ ScnFlowUpdate

SpecScenario == Init /\ [][NextScenario]_vars

-----------------------------------------------------------------------------
(* The Anchor System wired to the Debt Manager, with freezes and the debt  *)
(* other systems add between the player's anchor actions                   *)

Positions     == {<<0, 0>>, <<4, 3>>}
AnchorIndexes == (0 - 1) .. MAX_ANCHORS
AnchorDts     == {Sec(5), Sec(21)}

PlaceAnchor ==
    \E p \in Positions :
        LET r == place_anchor(World, p) IN
        calls < MaxCalls /\ Call("place_anchor", p, r) /\ UNCHANGED scn

RecallToAnchor(I) ==
    \E i \in I :
        LET r == recall_to_anchor(World, i) IN
        calls < MaxCalls /\ Call("recall_to_anchor", i, r) /\ UNCHANGED scn

RecallToNearest ==
    \E p \in Positions :
        LET r == recall_to_nearest(World, p) IN
        calls < MaxCalls /\ Call("recall_to_nearest", p, r) /\ UNCHANGED scn

AnchorUpdate ==
    \E dt \in AnchorDts :
        LET r == AnchorSystem_update(World, dt) IN
        calls < MaxCalls /\ Call("anchor_update", dt, r) /\ UNCHANGED scn

ClearAll ==
    LET r == clear_all(World) IN
    calls < MaxCalls /\ Call("clear_all", 0, r) /\ UNCHANGED scn

NextAnchor ==
    PlaceAnchor \/ RecallToAnchor(Slots) \/ RecallToNearest \/ AnchorUpdate
    \/ ClearAll \/ Freeze \/ Unfreeze

SpecAnchor == Init /\ [][NextAnchor]_vars

-----------------------------------------------------------------------------
(* The Momentum System, told of freezes by the Time Engine's events        *)

MomentumDts == {0, Sec(1), Sec(4)}

MomentumUpdate ==
    \E dt \in MomentumDts :
        LET r == MomentumSystem_update(World, dt) IN
        calls < MaxCalls /\ Call("momentum_update", dt, r) /\ UNCHANGED scn

MomentumReset ==
    LET r == MomentumSystem_reset(World) IN
    calls < MaxCalls /\ Call("momentum_reset", 0, r) /\ UNCHANGED scn

NextMomentum ==
    MomentumUpdate \/ MomentumReset \/ Freeze \/ Unfreeze \/ ResetTime
    \/ RestartLevel

SpecMomentum == Init /\ [][NextMomentum]_vars

-----------------------------------------------------------------------------
(* The player's actions: anchors and rewind, on the frames the game        *)
(* records (Game._update_gameplay, Game._handle_keydown)                   *)

PlayerStates ==
    { [position |-> <<0, 0>>, velocity |-> <<0, 0>>],
      [position |-> <<4, 3>>, velocity |-> <<2, 0>>] }
RecordDts   == {RECORDING_INTERVAL \div 2, RECORDING_INTERVAL}
ReversalDts == {Sec(1) \div 2, Sec(1)}

\* the world after n frames of RECORDING_INTERVAL recorded at rest
RECURSIVE Recorded(_)
Recorded(n) ==
    IF n = 0
    THEN [dm |-> DebtManager_init, te |-> TimeEngine_init,
          an |-> AnchorSystem_init, mo |-> MomentumSystem_init,
          tr |-> TimeReversalSystem_init,
          rs |-> ResonanceSystem_init(MIN_WAVE_INTERVAL),
          ec |-> EchoSystem_init,
          bus |-> <<>>, ret |-> 0, obj |-> None]
    ELSE record_state(Recorded(n - 1), <<0, 0>>, <<0, 0>>, 0, 0,
                      RECORDING_INTERVAL)

InitRecorded ==
    /\ dm = DebtManager_init
    /\ te = TimeEngine_init
    /\ an = AnchorSystem_init
    /\ mo = MomentumSystem_init
    /\ tr = Recorded(PreRecorded).tr
    /\ rs = Recorded(PreRecorded).rs
    /\ ec = Recorded(PreRecorded).ec
    /\ bus = <<>>
    /\ ret = 0
    /\ obj = None
    /\ last = [op |-> "init", arg |-> 0]
    /\ pre = [dm |-> dm, te |-> te, an |-> an, mo |-> mo, tr |-> tr,
              rs |-> rs, ec |-> ec]
    /\ hist = [position  |-> [i \in Slots |-> <<0, 0>>],
               placed_at |-> [i \in Slots |-> 0],
               recalled  |-> [i \in Slots |-> FALSE],
               now       |-> 0,
               wave      |-> [penalties |-> 0, frozen |-> FALSE,
                              small |-> TRUE, rebate |-> 0,
                              moving |-> TRUE],
               order     |-> <<>>,
               recorded  |-> {[timestamp |-> i * RECORDING_INTERVAL,
                               position  |-> <<0, 0>>, debt |-> 0] :
                                  i \in 1 .. PreRecorded}]
    /\ calls = 0
    /\ scn = [phase |-> "start", elapsed |-> 0]

RecordStateOver(D) ==
    \E p \in PlayerStates, dt \in D :
        LET r == record_state(World, p.position, p.velocity,
                              dm.current_debt, dm.current_tier, dt)
            arg == [dt |-> dt, player_pos |-> p.position,
                    debt |-> dm.current_debt]
        IN calls < MaxCalls /\ Call("record_state", arg, r) /\ UNCHANGED scn

RecordState == RecordStateOver(RecordDts)

InitiateRewind ==
    LET r == initiate_rewind(World) IN
    calls < MaxCalls /\ Call("initiate_rewind", 0, r) /\ UNCHANGED scn

ReversalUpdate ==
    \E dt \in ReversalDts :
        LET r == TimeReversalSystem_update(World, dt) IN
        calls < MaxCalls /\ Call("reversal_update", dt, r) /\ UNCHANGED scn

RechargeAtCheckpoint ==
    LET r == recharge_at_checkpoint(World) IN
    calls < MaxCalls /\ Call("recharge_at_checkpoint", 0, r)
    /\ UNCHANGED scn

NextActions ==
    PlaceAnchor \/ RecallToAnchor(AnchorIndexes) \/ RecallToNearest
    \/ RecordState \/ InitiateRewind \/ ReversalUpdate
    \/ RechargeAtCheckpoint

SpecActions == InitRecorded /\ [][NextActions]_vars

-----------------------------------------------------------------------------
(* The Time Reversal System late in a level: the buffer is two frames      *)
(* short of full, the player has been walking back and forth, and frames   *)
(* last one recording interval or the whole rewind window                  *)

LongDts == {RECORDING_INTERVAL, REWIND_DURATION}

\* where the player was in frame n of the walk
WalkPosition(n) == IF n % 2 = 0 THEN <<0, 0>> ELSE <<4, 3>>

\* the world after n <= MAX_SNAPSHOTS frames of RECORDING_INTERVAL recorded
\* along the walk: every frame has appended its snapshot and zeroed the
\* record timer
Walked(n) ==
    [Recorded(0) EXCEPT
        !.tr.snapshots =
            [i \in 1 .. n |->
                GameStateSnapshot(i * RECORDING_INTERVAL, WalkPosition(i),
                                  <<2, 0>>, 0, 0)],
        !.tr.recording_time = n * RECORDING_INTERVAL]

InitWalked ==
    /\ dm = DebtManager_init
    /\ te = TimeEngine_init
    /\ an = AnchorSystem_init
    /\ mo = MomentumSystem_init
    /\ tr = Walked(LongRecorded).tr
    /\ rs = Walked(LongRecorded).rs
    /\ ec = Walked(LongRecorded).ec
    /\ bus = <<>>
    /\ ret = 0
    /\ obj = None
    /\ last = [op |-> "init", arg |-> 0]
    /\ pre = [dm |-> dm, te |-> te, an |-> an, mo |-> mo, tr |-> tr,
              rs |-> rs, ec |-> ec]
    /\ hist = [position  |-> [i \in Slots |-> <<0, 0>>],
               placed_at |-> [i \in Slots |-> 0],
               recalled  |-> [i \in Slots |-> FALSE],
               now       |-> 0,
               wave      |-> [penalties |-> 0, frozen |-> FALSE,
                              small |-> TRUE, rebate |-> 0,
                              moving |-> TRUE],
               order     |-> <<>>,
               recorded  |-> {[timestamp |-> i * RECORDING_INTERVAL,
                               position  |-> WalkPosition(i), debt |-> 0] :
                                  i \in 1 .. LongRecorded}]
    /\ calls = 0
    /\ scn = [phase |-> "start", elapsed |-> 0]

ReversalReset ==
    LET r == TimeReversalSystem_reset(World) IN
    calls < MaxCalls /\ Call("reversal_reset", 0, r) /\ UNCHANGED scn

NextReversal ==
    /\ calls < MaxLateCalls
    /\ \/ RecordStateOver(LongDts)
       \/ InitiateRewind
       \/ ReversalUpdate
       \/ RechargeAtCheckpoint
       \/ ReversalReset
       \/ OtherAccrue

SpecReversal == InitWalked /\ [][NextReversal]_vars

-----------------------------------------------------------------------------
(* The Debt Manager with its readers called between accruals and           *)
(* repayments                                                              *)

GetInterestRate ==
    LET r == [World EXCEPT !.ret = get_interest_rate(dm)] IN
    calls < MaxCalls /\ Call("get_interest_rate", 0, r) /\ UNCHANGED scn

GetWorldSpeedMultiplier ==
    LET r == [World EXCEPT !.ret = get_world_speed_multiplier(dm)] IN
    calls < MaxCalls /\ Call("get_world_speed_multiplier", 0, r)
    /\ UNCHANGED scn

GetTierTint ==
    LET r == [World EXCEPT !.obj = Some(get_tier_tint(dm))] IN
    calls < MaxCalls /\ Call("get_tier_tint", 0, r) /\ UNCHANGED scn

NextReaders ==
    GetInterestRate \/ GetWorldSpeedMultiplier \/ GetTierTint
    \/ OtherAccrue \/ RepayDebt(RepayArgs)

SpecReaders == Init /\ [][NextReaders]_vars

-----------------------------------------------------------------------------
(* The Echo System driven by the frame loop: while the world is frozen the *)
(* echoes of the level's entities are predicted anew each frame, otherwise *)
(* the system is deactivated; update is also called on its own             *)

\* the lists of entities a level can hand over
EntityLists ==
    LET drone == [id |-> "drone", position |-> <<Px(0), Px(0)>>,
                  velocity |-> <<Px(10), Px(0)>>]
        crate == [id |-> "crate", position |-> <<Px(4), Px(3)>>,
                  velocity |-> <<Px(0), Px(0)>>]
    IN {<<drone>>, <<drone, crate>>}

\* the echo step of Game._update_gameplay
_update_echo(s, entities, draw) ==
    IF s.te.frozen
    THEN EchoSystem_update(activate(s), entities, s.dm.current_debt, draw)
    ELSE deactivate(s)

UpdateEcho ==
    \E entities \in EntityLists, draw \in NoiseDraws :
        LET r == _update_echo(World, entities, draw) IN
        calls < MaxCalls /\ Call("update_echo", 0, r) /\ UNCHANGED scn

EchoUpdate ==
    \E entities \in EntityLists, draw \in NoiseDraws :
        LET r == EchoSystem_update(World, entities, dm.current_debt, draw) IN
        calls < MaxCalls /\ Call("echo_update", 0, r) /\ UNCHANGED scn

NextEcho == UpdateEcho \/ EchoUpdate \/ Freeze \/ Unfreeze \/ OtherAccrue

SpecEcho == Init /\ [][NextEcho]_vars

-----------------------------------------------------------------------------
(* The Resonance System wired to the Time Engine and the Debt Manager:     *)
(* frames of every length from a fortieth of a second to a whole interval, *)
(* with the freeze key and other systems' debt between them                *)

ResonanceDts ==
    {Sec(1) \div 40, Sec(1) \div 20, Sec(1) \div 10, Sec(2), Sec(20)}

ResonanceUpdate ==
    \E dt \in ResonanceDts, player_moving \in BOOLEAN, w \in WaveIntervals :
        LET r == ResonanceSystem_update(World, dt, player_moving, w) IN
        calls < MaxCalls /\ Call("resonance_update", dt, r) /\ UNCHANGED scn

NextResonance == ResonanceUpdate \/ Freeze \/ Unfreeze \/ OtherAccrue

SpecResonance == Init /\ [][NextResonance]_vars

CycleDts == {Sec(1) \div 2, Sec(1)}

\* the mark a resonance update leaves: the parity of the number of updates
\* of the cycle so far
CycleTicked ==
    /\ rs.enabled
    /\ rs.waves_survived < MaxWaves
    /\ scn' = [phase |-> "cycling", elapsed |-> 1 - scn.elapsed]

\* The game loop calls resonance_system.update on every frame for as long
\* as the game runs, so this call is never withheld.
KeepCycling ==
    \E dt \in CycleDts, player_moving \in BOOLEAN, w \in WaveIntervals :
        LET r == ResonanceSystem_update(World, dt, player_moving, w) IN
        /\ CycleTicked
        /\ Step("resonance_update", dt, r)
        /\ UNCHANGED calls

\* what the player does between the updates
BetweenUpdates == calls < MaxSetupCalls /\ (Freeze \/ Unfreeze)

NextCycle == KeepCycling \/ BetweenUpdates

\* the steps that satisfy CycleTicked are the KeepCycling steps, and it is
\* enabled exactly when KeepCycling is
SpecCycle == Init /\ [][NextCycle]_vars /\ WF_scn(CycleTicked)

-----------------------------------------------------------------------------
(* One frame of Game._update_gameplay over the systems it drives, with the *)
(* freeze key and the restarts between frames                              *)

\* Game._update_gameplay after the key handling: Time Engine, anchors,
\* momentum, resonance, then the frame's recording. DebtManager defines no
\* set_momentum_multiplier, so the hasattr test fails and the multiplier is
\* handed to nobody.
\* the systems a frame has updated so far, in the order of their updates
updated(s, system) == [s EXCEPT !.order = Append(@, system)]

\* the frame with Momentum ahead of Anchors and the echo step at the end
_update_gameplay_echo_last(s, player, entities, draw, dt, next_wave_time) ==
    LET s0 == s @@ [order |-> <<>>]
        s1 == updated(update(s0, dt), "time_engine")
        s2 == updated(MomentumSystem_update(s1, dt), "momentum")
        s3 == updated(AnchorSystem_update(s2, dt), "anchors")
        player_moving == player.velocity # <<0, 0>>
        s4 == updated(ResonanceSystem_update(s3, dt, player_moving,
                                             next_wave_time), "resonance")
        s5 == record_state(s4, player.position, player.velocity,
                           s4.dm.current_debt, s4.dm.current_tier, dt)
        s6 == updated(TimeReversalSystem_update(s5, dt), "reversal")
    IN updated(_update_echo(s6, entities, draw), "echo")

_update_gameplay(s, player, entities, draw, dt, next_wave_time) ==
    LET s0 == s @@ [order |-> <<>>]
        s1 == updated(update(s0, dt), "time_engine")
        s2 == updated(_update_echo(s1, entities, draw), "echo")
        s3 == updated(AnchorSystem_update(s2, dt), "anchors")
        s4 == updated(MomentumSystem_update(s3, dt), "momentum")
        player_moving == player.velocity # <<0, 0>>
        s5 == updated(ResonanceSystem_update(s4, dt, player_moving,
                                             next_wave_time), "resonance")
        s6 == record_state(s5, player.position, player.velocity,
                           s5.dm.current_debt, s5.dm.current_tier, dt)
    IN updated(TimeReversalSystem_update(s6, dt), "reversal")

\* the frames are those of a level no entity of which offers
\* get_predicted_positions
FrameEntities == {<<>>}

UpdateGameplay ==
    \E player \in PlayerStates, entities \in FrameEntities,
       draw \in NoiseDraws, dt \in FrameDts, w \in WaveIntervals :
        LET r == _update_gameplay(World, player, entities, draw, dt, w) IN
        calls < MaxCalls /\ Call("update_gameplay", dt, r) /\ UNCHANGED scn

NextFrame ==
    UpdateGameplay \/ Freeze \/ Unfreeze \/ ResetTime \/ MomentumReset
    \/ RestartLevel

SpecFrame == Init /\ [][NextFrame]_vars

\* frames with the freeze key pressed and released between them
NextOrder == UpdateGameplay \/ Freeze \/ Unfreeze

SpecOrder == Init /\ [][NextOrder]_vars

-----------------------------------------------------------------------------
(* Properties *)

\* the tier table of the specification: thresholds {0, 3, 6, 10, 15}, each
\* boundary closed on the lower tier
T(d) == Cardinality({t \in {0, 3, 6, 10, 15} : Sec(t) < d})

\* C1: after every Debt Manager operation, in any sequence, current_tier is
\* T(current_debt): 0 at debt 0, 1 up to 3 s, 2 up to 6 s, 3 up to 10 s, 4 up
\* to 15 s and 5 above; the tier never falls when the debt does not fall, and
\* debt exactly 3 s is tier 1 while any debt just above 3 s is tier 2.
C1_TierIsFunctionOfDebt ==
    /\ dm.current_tier = T(dm.current_debt)
    /\ (pre.dm.current_debt <= dm.current_debt
            => pre.dm.current_tier <= dm.current_tier)
    /\ (dm.current_debt = Sec(3) => dm.current_tier = 1)
    /\ (dm.current_debt > Sec(3) /\ dm.current_debt <= Sec(6)
            => dm.current_tier = 2)

\* a repayment has brought the debt from tier 2 down to exactly 3 s
C1_Witness ==
    /\ last.op = "repay_debt"
    /\ pre.dm.current_tier = 2
    /\ dm.current_debt = Sec(3)
    /\ dm.current_tier = 1

\* C2: current_debt is never negative, whatever the arguments of accrue_debt,
\* repay_debt, absorb_debt and reset.
C2_DebtNeverNegative == dm.current_debt >= 0

\* a repayment larger than the debt held has been clamped at 0
C2_Witness ==
    /\ last.op = "repay_debt"
    /\ pre.dm.current_debt > 0
    /\ last.arg > pre.dm.current_debt
    /\ dm.current_debt = 0

\* C3: whenever the Time Engine is frozen, get_game_dt() is exactly 0.
C3_FrozenGameDtIsZero == te.frozen => get_game_dt(te) = 0

\* C4: if frozen then time_scale = 0, and if not frozen then time_scale equals
\* the Debt Manager's world-speed multiplier for the current tier; stated at
\* the first point the claim names, the state each update leaves (the debt
\* operations of other systems leave time_scale behind in the same way).
C4_TimeScaleFollowsDebt ==
    last.op = "update" =>
        /\ (te.frozen => te.time_scale = 0)
        /\ (~te.frozen => te.time_scale = get_world_speed_multiplier(dm))

\* C5 as stated: 4.0 s frozen leave debt 6.0 s at tier 2, and 6.0 s of flowing
\* time after the unfreeze bring debt and tier back to 0.
C5_SixSecondsOfDebt ==
    /\ (scn.phase = "frozen" /\ scn.elapsed = FreezeTime
            => dm.current_debt = Sec(6) /\ dm.current_tier = 2)
    /\ (scn.phase = "flowing" /\ scn.elapsed = RepayTime
            => dm.current_debt = 0 /\ dm.current_tier = 0)

\* C5 amended: 4.0 s frozen (frames of at most 0.1 s) leave debt above 6.8 s
\* and below 7.0 s at tier 3, because frames begun above 3 s and 6 s of debt
\* accrue at interest 1.25 and 1.5; 6.0 s of flowing time leave debt above 0
\* at tier 1, and 7.0 s of flowing time bring debt and tier back to 0.
C5_InterestCompounds ==
    /\ (scn.phase = "frozen" /\ scn.elapsed = FreezeTime
            => /\ dm.current_debt * 10 > Sec(68)
               /\ dm.current_debt < Sec(7)
               /\ dm.current_tier = 3)
    /\ (scn.phase = "flowing" /\ scn.elapsed = RepayTime
            => dm.current_debt > 0 /\ dm.current_tier = 1)
    /\ (scn.phase = "flowing" /\ scn.elapsed = RepayHorizon
            => dm.current_debt = 0 /\ dm.current_tier = 0)

\* the scenario has run to its end: more than 6 s accrued, all repaid
C5_Witness ==
    /\ scn.phase = "flowing"
    /\ scn.elapsed = RepayHorizon
    /\ dm.total_debt_accrued > Sec(6)
    /\ dm.current_debt = 0
    /\ dm.current_tier = 0

\* C6: accrue_debt(a) with a > 0 adds exactly a x interest of the tier held
\* before the call; reaching the bankruptcy threshold while not bankrupt sets
\* is_bankrupt, adds 1 to times_bankrupt and emits bankruptcy-started once
\* (19.0 s plus accrue_debt(2.0) at interest 3.0 gives 25.0 s, bankrupt); an
\* accrual made while already bankrupt emits none.
C6_AccrueAppliesInterest ==
    last.op = "accrue_debt" /\ last.arg > 0 =>
        /\ dm.current_debt * 100 =
               pre.dm.current_debt * 100
               + last.arg * TierInterest[T(pre.dm.current_debt) + 1]
        /\ (dm.current_debt >= BANKRUPTCY_THRESHOLD /\ ~pre.dm.is_bankrupt
                => /\ dm.is_bankrupt
                   /\ dm.times_bankrupt = pre.dm.times_bankrupt + 1
                   /\ Count(bus, "BANKRUPTCY_STARTED") = 1)
        /\ (pre.dm.current_debt = Sec(19) /\ last.arg = Sec(2)
                => dm.current_debt = Sec(25))
        /\ (pre.dm.is_bankrupt
                => /\ Count(bus, "BANKRUPTCY_STARTED") = 0
                   /\ dm.times_bankrupt = pre.dm.times_bankrupt
                   /\ dm.is_bankrupt)

\* the example: 19.0 s at tier 5, not bankrupt, then accrue_debt(2.0)
C6_Witness ==
    /\ last.op = "accrue_debt"
    /\ last.arg = Sec(2)
    /\ pre.dm.current_debt = Sec(19)
    /\ ~pre.dm.is_bankrupt
    /\ dm.current_debt = Sec(25)
    /\ dm.is_bankrupt
    /\ Count(bus, "BANKRUPTCY_STARTED") = 1

\* C7: current_debt >= BANKRUPTCY_THRESHOLD implies is_bankrupt: bankruptcy is
\* never cleared while the debt is still at or above the threshold.
C7_BankruptAtThreshold ==
    dm.current_debt >= BANKRUPTCY_THRESHOLD => dm.is_bankrupt

\* C8: repay_debt(real_dt) subtracts exactly real_dt, clamped at 0; while
\* bankrupt it adds real_dt to the survival timer and ends the bankruptcy
\* (one bankruptcy-ended) exactly when the timer has reached
\* BANKRUPTCY_SURVIVAL_TIME or the debt has reached 0, in no other call.
C8_RepayContract ==
    last.op = "repay_debt" /\ last.arg > 0 =>
        LET timer == pre.dm.bankruptcy_timer + last.arg
            over  == timer >= BANKRUPTCY_SURVIVAL_TIME \/ dm.current_debt = 0
        IN
        /\ dm.current_debt = Max(0, pre.dm.current_debt - last.arg)
        /\ (pre.dm.is_bankrupt /\ over
                => ~dm.is_bankrupt /\ Count(bus, "BANKRUPTCY_ENDED") = 1)
        /\ (pre.dm.is_bankrupt /\ ~over
                => /\ dm.is_bankrupt
                   /\ dm.bankruptcy_timer = timer
                   /\ Count(bus, "BANKRUPTCY_ENDED") = 0)
        /\ (~pre.dm.is_bankrupt
                => ~dm.is_bankrupt /\ Count(bus, "BANKRUPTCY_ENDED") = 0)

\* C9: accrue_debt(amount) with amount <= 0 changes no field of the Debt
\* Manager (debt, tier, bankruptcy, lifetime counters) and emits nothing.
C9_NonPositiveAccrueIsNoOp ==
    last.op = "accrue_debt" /\ last.arg <= 0 =>
        dm = pre.dm /\ bus = <<>>

\* accrue_debt(-5) has been called with debt outstanding
C9_Witness ==
    /\ last.op = "accrue_debt"
    /\ last.arg = Sec(0 - 5)
    /\ pre.dm.current_debt > 0
    /\ dm.current_debt = pre.dm.current_debt

\* C10: absorb_debt(amount) with amount <= 0 leaves current_debt and
\* current_tier as they were.
C10_NonPositiveAbsorbIgnored ==
    last.op = "absorb_debt" /\ last.arg <= 0 =>
        /\ dm.current_debt = pre.dm.current_debt
        /\ dm.current_tier = pre.dm.current_tier

\* C11: absorb_debt(amount) with amount >= 0 removes min(amount, current_debt)
\* at once, returns exactly the amount removed (never more than the debt held
\* before the call), applies no interest and recomputes the tier.
C11_AbsorbRemovesMin ==
    last.op = "absorb_debt" /\ last.arg >= 0 =>
        LET removed == Min(last.arg, pre.dm.current_debt) IN
        /\ dm.current_debt = pre.dm.current_debt - removed
        /\ ret = removed
        /\ ret <= pre.dm.current_debt
        /\ dm.total_debt_accrued = pre.dm.total_debt_accrued
        /\ dm.current_tier = T(dm.current_debt)

\* absorb_debt(30.0) against a smaller debt: capped by the debt, tier drops
C11_Witness ==
    /\ last.op = "absorb_debt"
    /\ last.arg = Sec(30)
    /\ pre.dm.current_debt > 0
    /\ pre.dm.current_debt < Sec(30)
    /\ pre.dm.current_tier >= 2
    /\ ret = pre.dm.current_debt
    /\ dm.current_tier = 0

\* the DEBT_TIER_CHANGED events on the bus
TierEvents == {i \in 1..Len(bus) : bus[i].name = "DEBT_TIER_CHANGED"}

\* C12: accrue_debt, repay_debt and absorb_debt each emit a tier-changed
\* notification exactly once when they change current_tier, carrying the tier
\* before and after, and none when the tier stays as it was.
C12_TierChangedOncePerCrossing ==
    last.op \in {"accrue_debt", "repay_debt", "absorb_debt"} =>
        /\ (dm.current_tier # pre.dm.current_tier
                => /\ Cardinality(TierEvents) = 1
                   /\ \A i \in TierEvents :
                          /\ bus[i].a = pre.dm.current_tier
                          /\ bus[i].b = dm.current_tier)
        /\ (dm.current_tier = pre.dm.current_tier => TierEvents = {})

\* an accrual has crossed more than one tier and announced it once
C12_Witness ==
    /\ last.op = "accrue_debt"
    /\ pre.dm.current_tier = 1
    /\ dm.current_tier = 3
    /\ Cardinality(TierEvents) = 1

\* C13: freeze() while frozen and unfreeze() while flowing change none of
\* frozen, time_scale, freeze_duration, total_freeze_time, game_dt and emit no
\* time-frozen / time-unfrozen; freeze() from flowing sets frozen, time_scale
\* 0 and freeze_duration 0 and emits time-frozen once.
C13_RedundantFreezeIsNoOp ==
    /\ (last.op = "freeze" /\ pre.te.frozen
            => te = pre.te /\ Count(bus, "TIME_FROZEN") = 0)
    /\ (last.op = "unfreeze" /\ ~pre.te.frozen
            => te = pre.te /\ Count(bus, "TIME_UNFROZEN") = 0)
    /\ (last.op = "freeze" /\ ~pre.te.frozen
            => /\ te.frozen
               /\ te.time_scale = 0
               /\ te.freeze_duration = 0
               /\ Count(bus, "TIME_FROZEN") = 1)

\* freeze() called again after frozen time has been counted
C13_Witness ==
    /\ last.op = "freeze"
    /\ pre.te.frozen
    /\ pre.te.freeze_duration > 0
    /\ te.freeze_duration = pre.te.freeze_duration

\* C14: freeze_duration is 0 in every state in which the Time Engine is not
\* frozen (it is reset on unfreeze).
C14_FlowingFreezeDurationZero == ~te.frozen => te.freeze_duration = 0

\* the slots occupied in anchor system a
Occupied(a) == {i \in Slots : a.anchors[i].occ}

\* every slot but i is as it was before the call
OthersUnchanged(i) ==
    \A j \in Slots \ {i} : an.anchors[j] = pre.an.anchors[j]

\* C15: place_anchor always returns an anchor, holding the given position
\* and the full decay time: with a free slot it takes the lowest free slot
\* and evicts nothing; with all 3 slots occupied it replaces an anchor of
\* least remaining_time, leaving exactly 3 occupied. Never more than 3 slots
\* are occupied.
C15_PlaceAnchorEvictsOldest ==
    /\ get_anchor_count(an) <= MAX_ANCHORS
    /\ last.op = "place_anchor" =>
        LET F == Slots \ Occupied(pre.an) IN
        /\ ~obj.none
        /\ obj.val.position = last.arg
        /\ obj.val.remaining_time = ANCHOR_DECAY_TIME
        /\ obj.val.index \in Slots
        /\ an.anchors[obj.val.index] = obj.val
        /\ OthersUnchanged(obj.val.index)
        /\ (F # {} => /\ obj.val.index \in F
                      /\ \A j \in F : obj.val.index <= j
                      /\ Count(bus, "ANCHOR_EXPIRED") = 0)
        /\ (F = {} => /\ get_anchor_count(an) = MAX_ANCHORS
                      /\ Count(bus, "ANCHOR_EXPIRED") = 1
                      /\ \A j \in Slots :
                            pre.an.anchors[obj.val.index].remaining_time
                                <= pre.an.anchors[j].remaining_time)

\* a fourth anchor placed while the middle slot is the one closest to decay
C15_Witness ==
    /\ last.op = "place_anchor"
    /\ get_anchor_count(pre.an) = MAX_ANCHORS
    /\ pre.an.anchors[1].remaining_time < pre.an.anchors[0].remaining_time
    /\ pre.an.anchors[1].remaining_time < pre.an.anchors[2].remaining_time
    /\ obj.val.index = 1
    /\ get_anchor_count(an) = MAX_ANCHORS

\* C16: recall_to_anchor(i) on an occupied slot returns the position given
\* when that anchor was placed and frees slot i, the other slots unchanged; a
\* recalled slot stays empty until a new placement, and a recall of an empty
\* slot returns None. recall_to_nearest does the same for an occupied slot of
\* least distance to the given position.
C16_RecallIsOneShot ==
    /\ \A i \in Slots : hist.recalled[i] => ~an.anchors[i].occ
    /\ last.op = "recall_to_anchor" /\ last.arg \in Slots =>
        IF pre.an.anchors[last.arg].occ
        THEN /\ obj = Some(hist.position[last.arg])
             /\ ~an.anchors[last.arg].occ
             /\ OthersUnchanged(last.arg)
        ELSE obj = None
    /\ last.op = "recall_to_nearest" /\ Occupied(pre.an) # {} =>
        \E i \in Occupied(pre.an) :
            /\ \A j \in Occupied(pre.an) :
                  distance_squared_to(last.arg, pre.an.anchors[i].position)
                    <= distance_squared_to(last.arg, pre.an.anchors[j].position)
            /\ obj = Some(hist.position[i])
            /\ ~an.anchors[i].occ
            /\ OthersUnchanged(i)

\* a second recall of a slot already recalled, with no placement in between
C16_Witness ==
    /\ last.op = "recall_to_anchor"
    /\ last.arg = 1
    /\ hist.recalled[1]
    /\ hist.position[1] = <<4, 3>>
    /\ an.anchors[0].occ
    /\ obj = None

\* C17: a successful recall_to_anchor raises current_debt by exactly
\* ANCHOR_RECALL_DEBT, whatever the debt tier.
C17_RecallChargesFixedCost ==
    last.op = "recall_to_anchor" /\ ~obj.none =>
        dm.current_debt = pre.dm.current_debt + ANCHOR_RECALL_DEBT

\* the ANCHOR_EXPIRED events on the bus that name slot i
Expired(i) ==
    {k \in 1..Len(bus) : bus[k].name = "ANCHOR_EXPIRED" /\ bus[k].a = i}

\* C19: AnchorSystem.update(dt) lowers the remaining_time of every occupied
\* slot by dt, frozen or not, and clears exactly the slots that have reached
\* <= 0, with one anchor-expired each.
C19_AnchorsDecayOnRealTime ==
    last.op = "anchor_update" =>
        \A i \in Slots :
            LET left == pre.an.anchors[i].remaining_time - last.arg IN
            IF pre.an.anchors[i].occ /\ left > 0
            THEN /\ an.anchors[i] =
                        [pre.an.anchors[i] EXCEPT !.remaining_time = left]
                 /\ Expired(i) = {}
            ELSE /\ ~an.anchors[i].occ
                 /\ Cardinality(Expired(i)) =
                        IF pre.an.anchors[i].occ THEN 1 ELSE 0

\* the example, during a freeze: anchors placed at t = 0, 5 and 10; at t = 31
\* the first slot has just expired and the other two are still occupied
C19_Witness ==
    /\ last.op = "anchor_update"
    /\ te.frozen
    /\ hist.now = Sec(31)
    /\ hist.placed_at = [i \in Slots |-> Sec(5 * i)]
    /\ pre.an.anchors[0].occ
    /\ ~an.anchors[0].occ
    /\ an.anchors[1].occ
    /\ an.anchors[2].occ

\* the call changed nothing the player owns and charged nothing
Untouched ==
    /\ obj = None
    /\ dm = pre.dm
    /\ an = pre.an
    /\ tr = pre.tr
    /\ bus = <<>>

\* C18: recall_to_anchor on an empty or out-of-range slot, recall_to_nearest
\* with no anchors, and initiate_rewind when can_rewind is false (no uses
\* left, fewer than 10 snapshots, or already rewinding) return None, charge
\* no debt and leave the anchor slots, uses_remaining, the snapshot buffer
\* and the rewinding flag as they were.
C18_UnavailableActionIsNoOp ==
    /\ (last.op = "recall_to_anchor"
            /\ (last.arg \notin Slots \/ ~pre.an.anchors[last.arg].occ)
        => Untouched)
    /\ (last.op = "recall_to_nearest" /\ Occupied(pre.an) = {}
        => Untouched)
    /\ (last.op = "initiate_rewind"
            /\ (pre.tr.uses_remaining <= 0
                \/ Len(pre.tr.snapshots) < 10
                \/ pre.tr.is_rewinding)
        => Untouched)

\* a rewind asked for with the buffer full enough and the effect over, but
\* the one use already spent
C18_Witness ==
    /\ last.op = "initiate_rewind"
    /\ pre.tr.uses_remaining = 0
    /\ pre.tr.total_uses = 1
    /\ Len(pre.tr.snapshots) >= 10
    /\ ~pre.tr.is_rewinding
    /\ pre.dm.current_debt = DEBT_COST
    /\ obj = None

\* C20: after any updates with dt >= 0, freezes, unfreezes and resets,
\* momentum is within [0, MAX_MOMENTUM], momentum_percentage within [0, 1]
\* and debt_reduction_multiplier, 1 - min(momentum * 0.05, 0.5), within
\* [0.5, 1.0].
C20_MomentumBounded ==
    /\ mo.momentum >= 0
    /\ mo.momentum <= MAX_MOMENTUM
    /\ momentum_percentage(mo) >= 0
    /\ momentum_percentage(mo) <= 1000
    /\ debt_reduction_multiplier(mo) >= Sec(50)
    /\ debt_reduction_multiplier(mo) <= Sec(100)
    /\ 20 * debt_reduction_multiplier(mo)
           = 20 * Sec(100) - Min(100 * mo.momentum, 10 * Sec(100))

\* momentum has been at the maximum and a frozen update has then drained
\* more than was left
C20_Witness ==
    /\ last.op = "momentum_update"
    /\ mo.is_frozen
    /\ mo.peak_momentum = MAX_MOMENTUM
    /\ pre.mo.momentum > 0
    /\ pre.mo.momentum * 100 < DRAIN_RATE * last.arg
    /\ mo.momentum = 0
    /\ debt_reduction_multiplier(mo) = Sec(100)

\* C21: in a frozen frame with momentum m the debt accrued is
\* real_dt x DEBT_ACCRUAL_RATE x debt_reduction_multiplier(m), before the
\* tier's interest: the momentum multiplier scales what reaches accrue_debt.
C21_MomentumScalesAccrual ==
    last.op = "update_gameplay" /\ pre.te.frozen =>
        LET debt_amount == (last.arg * DEBT_ACCRUAL_RATE) \div 100
            unscaled    == (debt_amount * get_interest_rate(pre.dm)) \div 100
            accrued     == dm.total_debt_accrued - pre.dm.total_debt_accrued
        IN (unscaled - accrued) * Sec(100)
             = unscaled * (Sec(100) - debt_reduction_multiplier(pre.mo))

\* C22: the frozen flag the Momentum System uses in update equals the Time
\* Engine's frozen flag in every state.
C22_MomentumFrozenFlagAgrees == mo.is_frozen = te.frozen


\* the phase after p in the cycle
NextPhase(p) ==
    CASE p = "CALM"      -> "WARNING"
      [] p = "WARNING"   -> "ACTIVE"
      [] p = "ACTIVE"    -> "AFTERMATH"
      [] p = "AFTERMATH" -> "CALM"

\* C23: an update of any length, however large, leaves the resonance phase
\* where it was or moves it to the next phase of the cycle Calm -> Warning ->
\* Active -> Aftermath -> Calm: one change at most, no phase skipped. A phase
\* that stays has its timer advanced by the step, a phase entered starts its
\* timer at 0.
C23_PhaseCycleNeverSkips ==
    last.op = "resonance_update" =>
        \/ rs.phase = pre.rs.phase /\ rs.timer = pre.rs.timer + last.arg
        \/ rs.phase = NextPhase(pre.rs.phase) /\ rs.timer = 0

\* a step longer than two whole phases has moved the phase by exactly one
C23_Witness ==
    /\ last.op = "resonance_update"
    /\ last.arg = Sec(20)
    /\ pre.rs.phase = "ACTIVE"
    /\ rs.phase = "AFTERMATH"
    /\ rs.waves_survived = 1

\* C24: while a wave is Active and the world has been frozen since the wave
\* began, with every frame step in (0, 0.1], the penalty has been charged
\* exactly once after each update of the wave; and the update that enters
\* Active charges nothing.
C24_FrozenPenaltyOncePerWave ==
    /\ (last.op = "resonance_update" /\ pre.rs.phase = "ACTIVE"
        /\ hist.wave.frozen /\ hist.wave.small
            => hist.wave.penalties = 1)
    /\ (last.op = "resonance_update" /\ pre.rs.phase = "WARNING"
        /\ rs.phase = "ACTIVE"
            => rs.waves_penalized = pre.rs.waves_penalized)


\* the snapshots of buffer q that are at least REWIND_DURATION old at time t
OldEnough(q, t) ==
    {i \in 1 .. Len(q) : q[i].timestamp <= t - REWIND_DURATION}

\* C25: a successful initiate_rewind returns the buffered snapshot with the
\* greatest timestamp not after recording time - REWIND_DURATION, or the
\* oldest buffered snapshot when none is that old; its position and debt are
\* the values record_state was passed at that recording time.
C25_RewindReturnsRecordedPast ==
    last.op = "initiate_rewind" /\ ~obj.none =>
        LET q   == pre.tr.snapshots
            Old == OldEnough(q, pre.tr.recording_time)
            chosen ==
                IF Old = {} THEN q[1]
                ELSE q[CHOOSE i \in Old :
                         \A j \in Old : q[j].timestamp <= q[i].timestamp]
        IN /\ obj.val = chosen
           /\ \E e \in hist.recorded : e.timestamp = obj.val.timestamp
           /\ \A e \in hist.recorded :
                  e.timestamp = obj.val.timestamp =>
                      /\ e.position = obj.val.player_position
                      /\ e.debt = obj.val.debt_amount

\* a rewind went back to a frame recorded in debt, neither the oldest nor the
\* newest of the buffer
C25_Witness ==
    /\ last.op = "initiate_rewind"
    /\ ~obj.none
    /\ obj.val.debt_amount > 0
    /\ obj.val # pre.tr.snapshots[1]
    /\ obj.val # pre.tr.snapshots[Len(pre.tr.snapshots)]

\* C26: a successful initiate_rewind takes one use, sets is_rewinding and
\* raises current_debt by exactly DEBT_COST whatever the tier; uses_remaining
\* is always within 0 .. USES_PER_LIFE.
C26_RewindChargesFixedCost ==
    /\ tr.uses_remaining \in 0 .. USES_PER_LIFE
    /\ (last.op = "initiate_rewind" /\ ~obj.none =>
            /\ tr.uses_remaining = pre.tr.uses_remaining - 1
            /\ tr.is_rewinding
            /\ dm.current_debt = pre.dm.current_debt + DEBT_COST)

\* C27 as stated: uses_remaining rises only in recharge_at_checkpoint.
C27_UsesRiseOnlyAtCheckpoint ==
    tr.uses_remaining > pre.tr.uses_remaining =>
        last.op = "recharge_at_checkpoint"

\* C27: uses_remaining rises only in recharge_at_checkpoint and in reset, and
\* then to USES_PER_LIFE; record_state, update and initiate_rewind never
\* raise it, however much time they are passed.
C27_UsesRiseOnlyAtCheckpointOrReset ==
    /\ (tr.uses_remaining > pre.tr.uses_remaining =>
            /\ last.op \in {"recharge_at_checkpoint", "reversal_reset"}
            /\ tr.uses_remaining = USES_PER_LIFE)
    /\ (last.op \in {"record_state", "reversal_update", "initiate_rewind"}
            => tr.uses_remaining <= pre.tr.uses_remaining)

\* a spent use has come back at a checkpoint, after the rewind effect ended
C27_Witness ==
    /\ last.op = "recharge_at_checkpoint"
    /\ pre.tr.uses_remaining = 0
    /\ ~pre.tr.is_rewinding
    /\ tr.uses_remaining = USES_PER_LIFE
    /\ tr.total_uses = 1

\* C28: the buffer never holds more than MAX_SNAPSHOTS snapshots, its
\* timestamps increase strictly from oldest to newest, and a snapshot appended
\* to a full buffer pushes out the oldest one and nothing else.
C28_SnapshotBufferBoundedOrdered ==
    /\ Len(tr.snapshots) <= MAX_SNAPSHOTS
    /\ \A i \in 1 .. Len(tr.snapshots) - 1 :
           tr.snapshots[i].timestamp < tr.snapshots[i + 1].timestamp
    /\ (last.op = "record_state" /\ Len(pre.tr.snapshots) = MAX_SNAPSHOTS
        /\ tr.snapshots # pre.tr.snapshots =>
            /\ SubSeq(tr.snapshots, 1, MAX_SNAPSHOTS - 1)
                 = Tail(pre.tr.snapshots)
            /\ tr.snapshots[MAX_SNAPSHOTS].timestamp = tr.recording_time)

\* a frame was recorded into a full buffer
C28_Witness ==
    /\ last.op = "record_state"
    /\ Len(pre.tr.snapshots) = MAX_SNAPSHOTS
    /\ tr.snapshots # pre.tr.snapshots
    /\ tr.snapshots[1] = pre.tr.snapshots[2]


\* C29: while the Echo System is inactive no tracked entity's echo holds a
\* prediction frame, and an update made while it is inactive changes neither
\* the accuracy nor any echo.
C29_EchoesDiscardedOnUnfreeze ==
    /\ (~ec.active =>
            \A id \in EntityIds :
                ec.echoes[id].tracked => ec.echoes[id].frames = <<>>)
    /\ (last.op = "echo_update" /\ ~pre.ec.active => ec = pre.ec)


\* the three readers of the Debt Manager
Readers == {"get_interest_rate", "get_world_speed_multiplier", "get_tier_tint"}

\* a reader has left every system as it was and emitted nothing
ReadOnly ==
    /\ dm = pre.dm /\ te = pre.te /\ an = pre.an /\ mo = pre.mo
    /\ tr = pre.tr /\ rs = pre.rs /\ ec = pre.ec
    /\ bus = <<>>

\* C30: the readers change no state and each returns the entry of the tier
\* table for current_tier, so the value read is a function of the tier.
C30_ReadersFollowTierTable ==
    /\ (last.op \in Readers => ReadOnly)
    /\ (last.op = "get_interest_rate"
            => ret = TierInterest[dm.current_tier + 1])
    /\ (last.op = "get_world_speed_multiplier"
            => ret = TierSpeed[dm.current_tier + 1])
    /\ (last.op = "get_tier_tint"
            => obj = Some(TierTint[dm.current_tier + 1]))

\* C31: a frozen update adds real_dt to freeze_duration, accrues
\* real_dt x DEBT_ACCRUAL_RATE (at the tier's interest) on every frame, sets
\* game_dt to 0 and repays nothing; a flowing update recomputes time_scale,
\* sets game_dt = real_dt x time_scale, repays real_dt exactly when the debt
\* was above 0, and accrues nothing.
C31_UpdateContract ==
    last.op = "update" =>
        IF pre.te.frozen
        THEN /\ te.freeze_duration = pre.te.freeze_duration + last.arg
             /\ (dm.total_debt_accrued - pre.dm.total_debt_accrued) * 100
                  = ((last.arg * DEBT_ACCRUAL_RATE) \div 100)
                      * get_interest_rate(pre.dm)
             /\ Count(bus, "DEBT_CHANGED") = 1
             /\ te.last_game_dt = 0
             /\ dm.total_debt_repaid = pre.dm.total_debt_repaid
        ELSE /\ te.time_scale = get_world_speed_multiplier(pre.dm)
             /\ te.last_game_dt * 100 = last.arg * te.time_scale
             /\ te.freeze_duration = pre.te.freeze_duration
             /\ dm.total_debt_accrued = pre.dm.total_debt_accrued
             /\ IF pre.dm.current_debt > 0
                THEN /\ dm.total_debt_repaid = pre.dm.total_debt_repaid + last.arg
                     /\ Count(bus, "DEBT_CHANGED") = 1
                ELSE dm = pre.dm /\ bus = <<>>

\* a frozen frame that is not the first of its freeze has accrued debt
C31_Witness ==
    /\ last.op = "update"
    /\ pre.te.frozen
    /\ pre.te.freeze_duration > 0
    /\ dm.total_debt_accrued > pre.dm.total_debt_accrued
    /\ te.last_game_dt = 0

\* C32: when an Active phase ends after every one of its updates granted a
\* rebate (the player moving, time flowing, the debt never exhausted), the
\* rebates of the phase add up to MOVING_BONUS, whatever the frame step.
C32_RebateOverWaveIsMovingBonus ==
    last.op = "resonance_update" /\ pre.rs.phase = "ACTIVE"
    /\ rs.phase = "AFTERMATH" /\ hist.wave.moving
        => hist.wave.rebate = MOVING_BONUS

\* C33: a record_state call outside a rewind appends exactly one snapshot
\* when the dt accumulated since the previous snapshot has reached
\* RECORDING_INTERVAL and none otherwise, so consecutive snapshots are at
\* least RECORDING_INTERVAL apart; during a rewind it changes nothing, and
\* from the start of the rewind effect to its end the buffer, the sampling
\* timer and the recording clock stay as they were.
C33_RecordStateSampling ==
    /\ (last.op = "record_state" /\ ~pre.tr.is_rewinding =>
          LET due == pre.tr.record_timer + last.arg.dt >= RECORDING_INTERVAL
              q   == tr.snapshots
          IN /\ tr.recording_time = pre.tr.recording_time + last.arg.dt
             /\ IF due
                THEN /\ q # <<>>
                     /\ q = deque_append(pre.tr.snapshots, q[Len(q)])
                     /\ q[Len(q)].timestamp = tr.recording_time
                     /\ q[Len(q)].player_position = last.arg.player_pos
                     /\ tr.record_timer = 0
                     /\ (Len(q) > 1 =>
                           q[Len(q)].timestamp - q[Len(q) - 1].timestamp
                               >= RECORDING_INTERVAL)
                ELSE /\ q = pre.tr.snapshots
                     /\ tr.record_timer
                          = pre.tr.record_timer + last.arg.dt)
    /\ (last.op = "record_state" /\ pre.tr.is_rewinding => tr = pre.tr)
    /\ (pre.tr.is_rewinding \/ tr.is_rewinding =>
          /\ tr.snapshots = pre.tr.snapshots
          /\ tr.record_timer = pre.tr.record_timer
          /\ tr.recording_time = pre.tr.recording_time)

\* record_state was called during a rewind with a whole interval of dt
C33_Witness ==
    /\ last.op = "record_state"
    /\ pre.tr.is_rewinding
    /\ last.arg.dt >= RECORDING_INTERVAL
    /\ tr.snapshots = pre.tr.snapshots
    /\ tr.snapshots # <<>>

\* the world as it stood before the last handler ran
PreWorld == pre @@ [bus |-> <<>>, ret |-> 0, obj |-> None]

C35_BankruptcyEndsWhileFlowing ==
    (dm.is_bankrupt /\ ~te.frozen) ~> (~dm.is_bankrupt \/ te.frozen)

\* C36: unless time is left frozen, with update called on every frame and
\* nothing accruing any more, the debt reaches 0 with tier 0 and both stay
\* there.
C36_DebtEventuallyRepaid ==
    <>[](te.frozen \/ (dm.current_debt = 0 /\ dm.current_tier = 0))

\* a flowing update has just repaid the last of a debt
C36_Witness ==
    /\ last.op = "update"
    /\ scn.phase = "flowing"
    /\ pre.dm.current_debt > 0
    /\ pre.dm.current_tier > 0
    /\ dm.current_debt = 0
    /\ dm.current_tier = 0

\* C37: over any sequence of Debt Manager operations, reset included, the
\* bankruptcy-started and bankruptcy-ended notifications alternate with the
\* bankrupt flag: a call that turns is_bankrupt on emits exactly one started
\* and no ended, a call that turns it off emits exactly one ended and no
\* started, and a call that leaves it alone emits neither.
C37_BankruptcyNotificationsAlternate ==
    LET started == Count(bus, "BANKRUPTCY_STARTED")
        ended   == Count(bus, "BANKRUPTCY_ENDED")
    IN last.op # "init" =>
         /\ (~pre.dm.is_bankrupt /\ dm.is_bankrupt
               => started = 1 /\ ended = 0)
         /\ (pre.dm.is_bankrupt /\ ~dm.is_bankrupt
               => started = 0 /\ ended = 1)
         /\ (pre.dm.is_bankrupt = dm.is_bankrupt
               => started = 0 /\ ended = 0)

\* the tier-changed notifications of the last call, in order
TierChanges == SelectSeq(bus, LAMBDA e : e.name = "DEBT_TIER_CHANGED")

\* C38: a listener that follows the tier only through tier-changed
\* notifications is never stale: a call that emits none leaves current_tier
\* as it was, and after a call that emits some, the new_tier of the last one
\* is current_tier.
C38_TierListenerNeverStale ==
    last.op # "init" =>
        IF TierChanges = <<>>
        THEN dm.current_tier = pre.dm.current_tier
        ELSE TierChanges[Len(TierChanges)].b = dm.current_tier

\* C39: the lifetime counters are exact. Every call other than reset, with
\* a non-negative argument, changes current_debt by what it added to
\* total_accrued, less what it added to total_repaid, less what absorb_debt
\* returned; in particular repay_debt raises total_repaid by exactly the
\* fall of current_debt; and peak_debt is never below current_debt.
C39_LifetimeCountersExact ==
    /\ dm.peak_debt >= dm.current_debt
    /\ (last.op \in {"accrue_debt", "repay_debt", "absorb_debt"} =>
          dm.current_debt - pre.dm.current_debt
            = (dm.total_debt_accrued - pre.dm.total_debt_accrued)
              - (dm.total_debt_repaid - pre.dm.total_debt_repaid)
              - (IF last.op = "absorb_debt" THEN ret ELSE 0))

\* the accumulated dt a phase of the resonance system must have seen
\* before it is left
MinDuration(p) ==
    CASE p = "CALM"      -> MIN_WAVE_INTERVAL
      [] p = "WARNING"   -> WARNING_DURATION
      [] p = "ACTIVE"    -> WAVE_DURATION
      [] p = "AFTERMATH" -> AFTERMATH_DURATION

\* C40: with update called on every frame, every phase is left for the next
\* one, so Active keeps coming back (for as many waves as are followed);
\* a phase is left only after its minimum duration of accumulated dt, and
\* every phase change resets the timer to 0.
C40_ResonanceCycleNeverStalls ==
    /\ \A p \in {"CALM", "WARNING", "ACTIVE", "AFTERMATH"} :
          (rs.phase = p /\ rs.waves_survived < MaxWaves)
              ~> (rs.phase = NextPhase(p))
    /\ (rs.waves_survived < MaxWaves) ~> (rs.phase = "ACTIVE")
    /\ [](last.op = "resonance_update" /\ rs.phase # pre.rs.phase =>
            /\ rs.timer = 0
            /\ pre.rs.timer + last.arg >= MinDuration(pre.rs.phase))

\* a second wave has become Active after the first ran its whole course
C40_Witness ==
    /\ last.op = "resonance_update"
    /\ pre.rs.phase = "WARNING"
    /\ rs.phase = "ACTIVE"
    /\ rs.timer = 0
    /\ rs.waves_survived >= 1

=============================================================================
